---- MODULE Spec2Model ----
(***************************************************************************)
(* Model of the colour extraction engine of perinst/exe.                   *)
(*                                                                         *)
(*   - SkiaColorExtractor (src/app/utils/skiaColorExtractor.ts): the image *)
(*     and pixel caches, loadSkiaImage / getImagePixels with their await   *)
(*     points, clearCache, and the pixel samplers.                         *)
(*                                                                         *)
(* Specifications:                                                         *)
(*   Spec        operations of the extractor run one after another         *)
(*   SpecConc    operations of several callers interleave at their awaits  *)
(*   SpecSame    two callers load the same URI at the same time            *)
(*   SpecTeardown operations interleave until clearCache runs at teardown  *)
(*   SpecSampler the samplers as functions of a decoded buffer             *)
(*   SpecCluster the clustering strategies as functions of a decoded buffer*)
(*   SpecConvert the colour conversions as functions of a colour           *)
(*   SpecNamer   the colour namer as a function of a string                *)
(*   SpecFallback the fallback extractor as a function of a byte stream    *)
(*   SpecLibrary the operations of LibraryStorage run one after another    *)
(*   SpecOverlap saves of LibraryStorage by several callers overlap        *)
(***************************************************************************)
EXTENDS Integers, Sequences, FiniteSets, TLC

(***************************************************************************)
(* Bounds of the model                                                     *)
(***************************************************************************)
\* decodable image files, named 1..NumUris
NumUris == 12
\* operations of one behaviour besides the first sample of each new image
\* made while no other operation is in flight
MaxOther == 2
\* callers whose operations may overlap (SpecConc, SpecSame)
NumProcs == 2
\* as MaxOther, for the behaviours of SpecSame
MaxSameOther == 1
\* largest width and height of a sampled buffer
MaxW == 3
MaxH == 3
\* pixel patterns of the sampled buffers are numbered 0..MaxSeed
MaxSeed == 2
\* bytes that may be missing at the end of a sampled buffer
MaxMissing == 1
\* how far outside the buffer a sampled coordinate may lie
CoordMargin == 2
\* largest radius of a sampled region
MaxRadius == 2
\* largest width and height of a clustered buffer
MaxClusterW == 3
MaxClusterH == 3
\* the clustered buffers are numbered 0..MaxPattern
MaxPattern == 124
\* largest number of colours asked of a clustering strategy
MaxColors == 3
\* largest sampleRate passed to extractDominantColors
MaxRate == 3
\* largest qualityLevel passed to extractAdaptiveColors
MaxQuality == 5
\* the converted colours take every ChannelStep-th channel value
ChannelStep == 8
\* and the MaxEdge + 1 lowest and highest channel values
MaxEdge == 3
\* Date.now() returns values in 1 .. MaxClock
MaxClock == 2
\* calls of LibraryStorage in a behaviour of SpecLibrary
MaxLibraryCalls == 4
\* calls of LibraryStorage by one caller in a behaviour of SpecOverlap
MaxOverlapCalls == 1
\* the hues given to hslToRgb lie in -MaxHue .. MaxHue
MaxHue == 720
\* the colours given to findNearestColorName have every NamerStep-th channel
\* value and the two lowest and highest
NamerStep == 32
\* extractMultipleColors is called with gridSize in 1..MaxGrid
MaxGrid == 3
\* the byte streams given to the fallback extractor: every stream of at
\* most MaxStream sampled bytes
MaxStream == 4
\* and streams of MaxLong - 20 .. MaxLong bytes, more than the 100 triplets
\* the extractor accepts
MaxLong == 115

(***************************************************************************)
(* Program constants                                                       *)
(***************************************************************************)
MAX_CACHE_SIZE == 10

(***************************************************************************)
(* Values                                                                  *)
(***************************************************************************)
\* JavaScript null: what a failed operation returns
Null == [tag |-> "null"]

\* ColorResult {r, g, b, a}
ColorResult(r, g, b, a) == [tag |-> "color", r |-> r, g |-> g, b |-> b, a |-> a]

\* {pixels, width, height} as getImagePixels returns it; pixels[i + 1] is
\* the byte at JavaScript index i
ImageData(pixels, width, height) ==
    [tag |-> "data", pixels |-> pixels, width |-> width, height |-> height]

Max(a, b) == IF a >= b THEN a ELSE b

Min(a, b) == IF a <= b THEN a ELSE b

\* mutant: the average is cut, not rounded
MathFloorDiv(total, n) == total \div n

\* Math.round(total / n) for total >= 0, n > 0: halves round up
MathRoundDiv(total, n) == (2 * total + n) \div (2 * n)

(***************************************************************************)
(* The samplers, as functions of the decoded buffer                        *)
(***************************************************************************)
\* pixels[i] of a typed array, for a JavaScript index i within its length
ByteAt(pixels, i) == pixels[i + 1]

\* mutant: the row stride is the height
getColorAtPixelByHeight(imageData, x, y) ==
    IF imageData = Null THEN Null
    ELSE LET pixels == imageData.pixels
             pixelIndex == (y * imageData.height + x) * 4
         IN  IF x < 0 \/ x >= imageData.width \/ y < 0 \/ y >= imageData.height THEN Null
             ELSE IF pixelIndex + 3 >= Len(pixels) THEN Null
             ELSE ColorResult(pixels[pixelIndex + 1], pixels[pixelIndex + 2],
                              pixels[pixelIndex + 3], pixels[pixelIndex + 4])

\* getColorAtPixel after its await: the bounds check and the read
getColorAtPixel(imageData, x, y) ==
    IF imageData = Null THEN Null
    ELSE LET pixels == imageData.pixels
             width == imageData.width
             height == imageData.height
             pixelIndex == (y * width + x) * 4
         IN  IF x < 0 \/ x >= width \/ y < 0 \/ y >= height THEN Null
             ELSE IF pixelIndex + 3 >= Len(pixels) THEN Null
             ELSE ColorResult(ByteAt(pixels, pixelIndex),
                              ByteAt(pixels, pixelIndex + 1),
                              ByteAt(pixels, pixelIndex + 2),
                              ByteAt(pixels, pixelIndex + 3))

\* how a call ends: it throws the TypeError of reading a property of
\* undefined, or it returns a list
Thrown == [tag |-> "TypeError"]

Returned(items) == [tag |-> "list", items |-> items]

\* the point the loops of extractMultipleColors compute in their pass
\* number k (from 0): i = k \div gridSize + 1, j = k % gridSize + 1
GridPoint(width, height, gridSize, k) ==
    LET stepX == width \div (gridSize + 1)
        stepY == height \div (gridSize + 1)
    IN  [x |-> ((k \div gridSize) + 1) * stepX, y |-> ((k % gridSize) + 1) * stepY]

\* one pass of the inner loop of extractMultipleColors
GridVisit(colors, imageData, gridSize, k) ==
    LET pixels == imageData.pixels
        width == imageData.width
        height == imageData.height
        x == GridPoint(width, height, gridSize, k).x
        y == GridPoint(width, height, gridSize, k).y
        pixelIndex == (y * width + x) * 4
    IN  IF x >= 0 /\ x < width /\ y >= 0 /\ y < height /\ pixelIndex + 3 < Len(pixels)
        THEN Append(colors, ColorResult(ByteAt(pixels, pixelIndex),
                                        ByteAt(pixels, pixelIndex + 1),
                                        ByteAt(pixels, pixelIndex + 2),
                                        ByteAt(pixels, pixelIndex + 3)))
        ELSE colors

\* the passes k .. gridSize * gridSize - 1 of the two loops, in this order
RECURSIVE GridLoop(_, _, _, _)
GridLoop(colors, imageData, gridSize, k) ==
    IF k >= gridSize * gridSize THEN colors
    ELSE GridLoop(GridVisit(colors, imageData, gridSize, k), imageData, gridSize, k + 1)

\* extractMultipleColors after its await, for an integer gridSize >= 1
extractMultipleColors(imageData, gridSize) ==
    IF imageData = Null THEN Returned(<< >>)
    ELSE Returned(GridLoop(<< >>, imageData, gridSize, 0))

\* the running totals of extractRegionAverageColor
ZeroTotals == [r |-> 0, g |-> 0, b |-> 0, a |-> 0, validPixels |-> 0]

\* one pass of the inner loop body of extractRegionAverageColor
AddPixel(acc, pixels, width, x, y) ==
    LET pixelIndex == (y * width + x) * 4
    IN  IF pixelIndex + 3 < Len(pixels)
        THEN [r |-> acc.r + ByteAt(pixels, pixelIndex),
              g |-> acc.g + ByteAt(pixels, pixelIndex + 1),
              b |-> acc.b + ByteAt(pixels, pixelIndex + 2),
              a |-> acc.a + ByteAt(pixels, pixelIndex + 3),
              validPixels |-> acc.validPixels + 1]
        ELSE acc

\* the nested loops of extractRegionAverageColor: x outer, y inner
RECURSIVE RegionLoop(_, _, _, _, _, _, _, _)
RegionLoop(acc, pixels, width, x, y, startY, endX, endY) ==
    IF x > endX THEN acc
    ELSE IF y > endY
         THEN RegionLoop(acc, pixels, width, x + 1, startY, startY, endX, endY)
         ELSE RegionLoop(AddPixel(acc, pixels, width, x, y),
                         pixels, width, x, y + 1, startY, endX, endY)

\* extractRegionAverageColor after its await
extractRegionAverageColor(imageData, centerX, centerY, radius) ==
    IF imageData = Null THEN Null
    ELSE LET pixels == imageData.pixels
             width == imageData.width
             height == imageData.height
             startX == Max(0, centerX - radius)
             endX == Min(width - 1, centerX + radius)
             startY == Max(0, centerY - radius)
             endY == Min(height - 1, centerY + radius)
             t == RegionLoop(ZeroTotals, pixels, width,
                             startX, startY, startY, endX, endY)
         IN  IF t.validPixels = 0 THEN Null
             ELSE ColorResult(MathRoundDiv(t.r, t.validPixels),
                              MathRoundDiv(t.g, t.validPixels),
                              MathRoundDiv(t.b, t.validPixels),
                              MathRoundDiv(t.a, t.validPixels))

\* getImageDimensions after its await; image is Null or an SkImage
getImageDimensions(image) ==
    IF image = Null THEN Null
    ELSE [tag |-> "dims", width |-> image.width, height |-> image.height]

(***************************************************************************)
(* The image files behind the URIs                                         *)
(***************************************************************************)
\* URIs 1..NumUris name images that decode and whose pixels can be read
GoodUris == 1 .. NumUris

\* a URI whose file cannot be read: readAsStringAsync throws
UnreadableUri == NumUris + 1

\* a URI whose bytes are no image: MakeImageFromEncoded returns null
UndecodableUri == NumUris + 2

\* a URI whose image decodes but whose readPixels returns null
NoPixelsUri == NumUris + 3

Uris == GoodUris \cup {UnreadableUri, UndecodableUri, NoPixelsUri}

\* the SkImage decoded from the file of uri: a 1 x 1 image
SkImage(uri) == [tag |-> "image", src |-> uri, width |-> 1, height |-> 1]

\* Skia.Image.MakeImageFromEncoded on the bytes read from uri
MakeImageFromEncoded(uri) == IF uri = UndecodableUri THEN Null ELSE SkImage(uri)

\* image.readPixels(): RGBA8888, width * height * 4 bytes, or null
readPixels(image) ==
    IF image.src = NoPixelsUri THEN Null
    ELSE <<image.src, image.src, image.src, 255>>

(***************************************************************************)
(* Map<string, V>: imageCache keeps its entries in insertion order;        *)
(* pixelCache is never iterated, so it is a set of entries.                *)
(***************************************************************************)
MapSize(m) == Len(m)

MapHas(m, k) == \E i \in 1 .. Len(m) : m[i].key = k

MapGet(m, k) == m[CHOOSE i \in 1 .. Len(m) : m[i].key = k].value

\* Map.set: a present key keeps its place, a new key goes last
MapSet(m, k, v) ==
    IF MapHas(m, k)
    THEN [i \in 1 .. Len(m) |-> IF m[i].key = k THEN [key |-> k, value |-> v] ELSE m[i]]
    ELSE Append(m, [key |-> k, value |-> v])

MapDelete(m, k) == SelectSeq(m, LAMBDA e : e.key # k)

\* this.imageCache.keys().next().value
FirstKey(m) == m[1].key

MapKeys(m) == [i \in 1 .. Len(m) |-> m[i].key]

PixelHas(px, k) == \E e \in px : e.key = k

PixelGet(px, k) == (CHOOSE e \in px : e.key = k).value

PixelSet(px, k, v) == {e \in px : e.key # k} \cup {[key |-> k, value |-> v]}

PixelDelete(px, k) == {e \in px : e.key # k}

PixelKeys(px) == {e.key : e \in px}

(***************************************************************************)
(* loadSkiaImage, getImagePixels and clearCache on the caches              *)
(***************************************************************************)
\* the cache check of loadSkiaImage: the key is present and its value is truthy
ImageHit(m, k) == MapHas(m, k) /\ MapGet(m, k) # Null

\* mutant: a hit moves the entry to the end of the map (LRU)
CacheAfterHitRefresh(m, k) == Append(MapDelete(m, k), [key |-> k, value |-> MapGet(m, k)])

\* the image cache after a hit: the hit returns the entry and leaves the map alone
CacheAfterHit(m, k) == m

\* mutant: the eviction waits until the cache is over its capacity
ShouldEvictAbove(m) == MapSize(m) > MAX_CACHE_SIZE

\* the test that guards the eviction
ShouldEvict(m) == MapSize(m) >= MAX_CACHE_SIZE

\* mutant: the eviction takes the newest key
EvictKeyLast(m) == m[Len(m)].key

\* the key the eviction removes from both caches
EvictKey(m) == FirstKey(m)

\* "Manage cache size": the caches after the eviction block
ImageCacheAfterEvict(m) ==
    IF ShouldEvict(m) /\ MapSize(m) > 0 THEN MapDelete(m, EvictKey(m)) ELSE m

PixelCacheAfterEvict(m, px) ==
    IF ShouldEvict(m) /\ MapSize(m) > 0 THEN PixelDelete(px, EvictKey(m)) ELSE px

\* what loadSkiaImage gets from the read and the decoder: a thrown read is
\* caught and gives null, like a decoder that returns no image
DecodeResult(uri) == IF uri = UnreadableUri THEN Null ELSE MakeImageFromEncoded(uri)

\* mutant: the result is cached without the test for null
ImageCacheAfterDecodeAlways(m, uri, image) == MapSet(m, uri, image)

\* mutant: the image is pushed onto the cache without looking for its key
ImageCacheAfterDecodePush(m, uri, image) ==
    IF image # Null THEN Append(m, [key |-> uri, value |-> image]) ELSE m

\* "if (image) this.imageCache.set(imageUri, image)"
ImageCacheAfterDecode(m, uri, image) == IF image # Null THEN MapSet(m, uri, image) ELSE m

\* getImagePixels after loadSkiaImage: the pixels it reads, or null
PixelsRead(image) == IF image = Null THEN Null ELSE readPixels(image)

\* "this.pixelCache.set(imageUri, pixels)", reached only with pixels
PixelCacheAfterRead(px, uri, pixels) ==
    IF pixels # Null THEN PixelSet(px, uri, pixels) ELSE px

\* clearCache
ImageCacheAfterClear(m) == << >>

\* mutant: clearCache forgets the pixel cache
PixelCacheAfterClearKept(px) == px

PixelCacheAfterClear(px) == {}

(***************************************************************************)
(* State                                                                   *)
(***************************************************************************)
VARIABLES
    imageCache,      \* SkiaColorExtractor.imageCache: entries in Map order
    pixelCache,      \* SkiaColorExtractor.pixelCache
    pc,              \* per caller: "idle", "read" (awaiting the file read),
                     \* "loaded" (loadSkiaImage has resolved, its caller not yet
                     \* resumed), "done" (the operation's promise has resolved)
    call,            \* per caller: the operation in flight
    img,             \* per caller: what loadSkiaImage resolved to
    ret,             \* per caller: what the operation resolved to
    insertionOrder,  \* history: the cached URIs, earliest insertion first
    used,            \* history: how many of the good URIs have been requested
    others,          \* history: operations counted against MaxOther
    scn,             \* history: progress along the loads u1, u2, ... in order
    cl,              \* history: the keys clearCache removed, until the next decode
    snap,            \* history (SpecSame): the caches when the operations in flight began
    sData,           \* SpecSampler: the decoded buffer
    sCall,           \* SpecSampler: the last sampler call
    sResult,         \* SpecSampler: its result
    storage,         \* AsyncStorage: the item under STORAGE_KEYS.LIBRARY_DATA
    lib,             \* per caller of LibraryStorage: the call in flight, its
                     \* position ("get", "seed" and "set" are its awaits), its
                     \* local data and what it threw
    clock            \* the last value Date.now() returned

cacheVars == <<imageCache, pixelCache, pc, call, img, ret,
               insertionOrder, used, others, scn, cl, snap>>

samplerVars == <<sData, sCall, sResult>>

libraryVars == <<storage, lib, clock>>

vars == <<imageCache, pixelCache, pc, call, img, ret,
          insertionOrder, used, others, scn, cl, snap, sData, sCall, sResult,
          storage, lib, clock>>

Procs == 1 .. NumProcs

\* the public operations that go through the caches
Ops == {"getImageDimensions", "getColorAtPixel",
        "extractCenterColor", "extractRegionAverageColor"}

NoCall == [op |-> "none", uri |-> 0, x |-> 0, y |-> 0, inner |-> "none"]

ScnOff == [on |-> FALSE, loads |-> 0, hit2 |-> FALSE]

NotCleared == [on |-> FALSE, held |-> {}]

NoSnap == [on |-> FALSE, image |-> << >>, pixel |-> {}, calls |-> {}, raced |-> FALSE]

CacheInit ==
    /\ imageCache = << >>
    /\ pixelCache = {}
    /\ pc = [p \in Procs |-> "idle"]
    /\ call = [p \in Procs |-> NoCall]
    /\ img = [p \in Procs |-> Null]
    /\ ret = [p \in Procs |-> Null]
    /\ insertionOrder = << >>
    /\ used = 0
    /\ others = 0
    /\ scn = [on |-> TRUE, loads |-> 0, hit2 |-> FALSE]
    /\ cl = NotCleared
    /\ snap = NoSnap

SamplerIdle ==
    /\ sData = Null
    /\ sCall = [op |-> "none", x |-> 0, y |-> 0, radius |-> 0]
    /\ sResult = Null

Undefined == <<"undefined", 0>>

NoLibraryCall == [op |-> "none", id |-> "", color |-> "", packageId |-> Undefined]

\* no call of LibraryStorage has been made and the store holds no item
LibraryIdle ==
    /\ storage = Null
    /\ lib = [p \in Procs |-> [pc |-> "idle", call |-> NoLibraryCall, data |-> Null,
                               error |-> "", before |-> Null, made |-> 0]]
    /\ clock = 1

Init == CacheInit /\ SamplerIdle /\ LibraryIdle

(***************************************************************************)
(* The operations, cut at their awaits                                     *)
(***************************************************************************)
\* the rest of a pixel operation once getImagePixels has returned imageData
\* (radius has its default, 2)
Finish(c, imageData) ==
    IF c.op = "extractRegionAverageColor"
    THEN extractRegionAverageColor(imageData, c.x, c.y, 2)
    ELSE getColorAtPixel(imageData, c.x, c.y)

\* history: the insertion order after the eviction block
OrderAfterEvict(m, order) ==
    IF ShouldEvict(m) /\ MapSize(m) > 0
    THEN SelectSeq(order, LAMBDA k : k # EvictKey(m))
    ELSE order

\* loadSkiaImage(c.uri) up to its return (a hit) or its await (a miss)
EnterLoadSkiaImage(p, c) ==
    IF ImageHit(imageCache, c.uri)
    THEN /\ imageCache' = CacheAfterHit(imageCache, c.uri)
         /\ img' = [img EXCEPT ![p] = MapGet(imageCache, c.uri)]
         /\ pc' = [pc EXCEPT ![p] = "loaded"]
         /\ call' = [call EXCEPT ![p] = c]
         /\ UNCHANGED <<pixelCache, ret, insertionOrder>>
    ELSE /\ imageCache' = ImageCacheAfterEvict(imageCache)
         /\ pixelCache' = PixelCacheAfterEvict(imageCache, pixelCache)
         /\ insertionOrder' = OrderAfterEvict(imageCache, insertionOrder)
         /\ pc' = [pc EXCEPT ![p] = "read"]
         /\ call' = [call EXCEPT ![p] = c]
         /\ UNCHANGED <<img, ret>>

\* getImagePixels(c.uri) up to its return (both caches hit) or its await
EnterGetImagePixels(p, c) ==
    IF PixelHas(pixelCache, c.uri) /\ ImageHit(imageCache, c.uri)
    THEN LET cachedImage == MapGet(imageCache, c.uri)
             cachedPixels == PixelGet(pixelCache, c.uri)
         IN  /\ ret' = [ret EXCEPT ![p] =
                   Finish(c, ImageData(cachedPixels, cachedImage.width, cachedImage.height))]
             /\ pc' = [pc EXCEPT ![p] = "done"]
             /\ call' = [call EXCEPT ![p] = c]
             /\ UNCHANGED <<imageCache, pixelCache, img, insertionOrder>>
    ELSE EnterLoadSkiaImage(p, [c EXCEPT !.inner = "getImagePixels"])

\* history: the scenario "load u1, u2, ... in order, with one hit on u2 when
\* ten images are cached" goes on with this operation, or is left
ScnAfterStart(p, uri) ==
    IF ~scn.on \/ \E q \in Procs \ {p} : pc[q] # "idle" THEN ScnOff
    ELSE IF uri = used + 1 /\ uri \in GoodUris /\ scn.loads = used
         THEN [scn EXCEPT !.loads = uri]
    ELSE IF uri = 2 /\ scn.loads = MAX_CACHE_SIZE /\ ~scn.hit2 /\ used = MAX_CACHE_SIZE
         THEN [scn EXCEPT !.hit2 = TRUE]
    ELSE ScnOff

\* the first sample of a new image, made while nothing else is in flight,
\* is not counted against MaxOther
IsFirstSample(p, op, uri) ==
    /\ op = "getColorAtPixel"
    /\ uri = used + 1
    /\ uri \in GoodUris
    /\ \A q \in Procs \ {p} : pc[q] = "idle"

\* caller p calls op(uri, ...): the operation runs to its first await.
\* The good URIs are interchangeable, so a URI not requested before is
\* always the next one, used + 1.
Call(p, op, uri) ==
    /\ pc[p] = "idle"
    /\ uri \in GoodUris => uri <= used + 1
    /\ IsFirstSample(p, op, uri) \/ others < MaxOther
    /\ others' = IF IsFirstSample(p, op, uri) THEN others ELSE others + 1
    /\ used' = IF uri = used + 1 /\ uri \in GoodUris THEN uri ELSE used
    /\ scn' = ScnAfterStart(p, uri)
    /\ LET c == [op |-> op, uri |-> uri, x |-> 0, y |-> 0, inner |-> "loadSkiaImage"]
       IN  IF op \in {"getImageDimensions", "extractCenterColor"}
           THEN EnterLoadSkiaImage(p, c)
           ELSE EnterGetImagePixels(p, c)
    /\ UNCHANGED cl
    /\ UNCHANGED <<samplerVars, libraryVars>>

Start(p, op, uri) == Call(p, op, uri) /\ UNCHANGED snap

\* the file read of caller p settles: loadSkiaImage decodes, caches and returns
Decode(p) ==
    /\ pc[p] = "read"
    /\ LET uri == call[p].uri
           image == DecodeResult(uri)
       IN  /\ img' = [img EXCEPT ![p] = image]
           /\ imageCache' = ImageCacheAfterDecode(imageCache, uri, image)
           /\ insertionOrder' =
                IF image # Null /\ ~MapHas(imageCache, uri)
                THEN Append(insertionOrder, uri)
                ELSE insertionOrder
    /\ pc' = [pc EXCEPT ![p] = "loaded"]
    /\ cl' = NotCleared
    /\ UNCHANGED <<pixelCache, call, ret, used, others, scn>>
    /\ UNCHANGED <<samplerVars, libraryVars>>

FinishRead(p) == Decode(p) /\ UNCHANGED snap

\* the caller of loadSkiaImage resumes with its result
Continue(p) ==
    /\ pc[p] = "loaded"
    /\ LET c == call[p]
           image == img[p]
       IN  IF c.inner = "getImagePixels"
           THEN LET pixels == PixelsRead(image)
                IN  /\ pc' = [pc EXCEPT ![p] = "done"]
                    /\ pixelCache' = PixelCacheAfterRead(pixelCache, c.uri, pixels)
                    /\ ret' = [ret EXCEPT ![p] =
                         IF pixels = Null THEN Null
                         ELSE Finish(c, ImageData(pixels, image.width, image.height))]
                    /\ UNCHANGED <<imageCache, call, img, insertionOrder>>
           ELSE IF c.op = "getImageDimensions" \/ image = Null
           THEN /\ pc' = [pc EXCEPT ![p] = "done"]
                /\ ret' = [ret EXCEPT ![p] = getImageDimensions(image)]
                /\ UNCHANGED <<imageCache, pixelCache, call, img, insertionOrder>>
           ELSE EnterGetImagePixels(p,
                    [c EXCEPT !.x = image.width \div 2, !.y = image.height \div 2])
    /\ cl' = NotCleared
    /\ UNCHANGED <<used, others, scn>>
    /\ UNCHANGED <<samplerVars, libraryVars>>

Resume(p) == Continue(p) /\ UNCHANGED snap

\* the caller of the operation takes its result
Settle(p) ==
    /\ pc[p] = "done"
    /\ pc' = [pc EXCEPT ![p] = "idle"]
    /\ call' = [call EXCEPT ![p] = NoCall]
    /\ img' = [img EXCEPT ![p] = Null]
    /\ ret' = [ret EXCEPT ![p] = Null]
    /\ UNCHANGED <<imageCache, pixelCache, insertionOrder, used, others, scn, cl>>
    /\ UNCHANGED <<samplerVars, libraryVars>>

Return(p) == Settle(p) /\ UNCHANGED snap

\* clearCache(): synchronous
Clear ==
    /\ others < MaxOther
    /\ others' = others + 1
    /\ imageCache' = ImageCacheAfterClear(imageCache)
    /\ pixelCache' = PixelCacheAfterClear(pixelCache)
    /\ insertionOrder' = << >>
    /\ scn' = ScnOff
    /\ cl' = [on |-> TRUE,
              held |-> {imageCache[i].key : i \in 1 .. Len(imageCache)}
                       \cup PixelKeys(pixelCache)]
    /\ UNCHANGED <<pc, call, img, ret, used>>
    /\ UNCHANGED <<samplerVars, libraryVars>>

ClearCache == Clear /\ UNCHANGED snap

(***************************************************************************)
(* Spec: the operations run one after another (one caller, and clearCache  *)
(* only between operations)                                                *)
(***************************************************************************)
ClearCacheIdle == (\A p \in Procs : pc[p] = "idle") /\ ClearCache

Next ==
    \/ \E op \in Ops, uri \in Uris : Start(1, op, uri)
    \/ FinishRead(1)
    \/ Resume(1)
    \/ Return(1)
    \/ ClearCacheIdle

Spec == Init /\ [][Next]_vars

(***************************************************************************)
(* SpecConc: the operations of the callers interleave at their awaits      *)
(***************************************************************************)
NextConc ==
    \/ \E p \in Procs, op \in Ops, uri \in Uris : Start(p, op, uri)
    \/ \E p \in Procs : FinishRead(p)
    \/ \E p \in Procs : Resume(p)
    \/ \E p \in Procs : Return(p)
    \/ ClearCache

SpecConc == Init /\ [][NextConc]_vars

(***************************************************************************)
(* SpecSame: operations overlap only when they are about the same URI      *)
(***************************************************************************)
\* history: the caches when the first of the overlapping operations began,
\* the calls made since, and whether two of them were awaiting the file
\* read of the same URI at the same time
SnapAfterStart(p, op, uri) ==
    IF \A q \in Procs \ {p} : pc[q] = "idle"
    THEN [on |-> TRUE, image |-> imageCache, pixel |-> pixelCache,
          calls |-> {<<op, uri>>}, raced |-> FALSE]
    ELSE [snap EXCEPT !.calls = @ \cup {<<op, uri>>},
                      !.raced = @ \/ (pc'[p] = "read" /\ \E q \in Procs \ {p} : pc[q] = "read")]

\* The callers are interchangeable, so they join in the order 1, 2, ...
StartSame(p, op, uri) ==
    /\ \A q \in Procs : q < p => pc[q] # "idle"
    /\ \A q \in Procs \ {p} : pc[q] # "idle" => call[q].uri = uri
    /\ IsFirstSample(p, op, uri) \/ others < MaxSameOther
    /\ Call(p, op, uri)
    /\ snap' = SnapAfterStart(p, op, uri)

ReturnSame(p) ==
    /\ Settle(p)
    /\ snap' = IF \A q \in Procs \ {p} : pc[q] = "idle" THEN NoSnap ELSE snap

ClearCacheSame == others < MaxSameOther /\ ClearCacheIdle

\* extractRegionAverageColor uses the caches as getColorAtPixel does
OpsSame == Ops \ {"extractRegionAverageColor"}

NextSame ==
    \/ \E p \in Procs, op \in OpsSame, uri \in Uris : StartSame(p, op, uri)
    \/ \E p \in Procs : FinishRead(p)
    \/ \E p \in Procs : Resume(p)
    \/ \E p \in Procs : ReturnSame(p)
    \/ ClearCacheSame

SpecSame == Init /\ [][NextSame]_vars

(***************************************************************************)
(* SpecTeardown: the operations of the callers interleave until clearCache *)
(* runs at the teardown (the unmount cleanup of the analyzer screen); the  *)
(* operations in flight go on, and no operation is started afterwards      *)
(***************************************************************************)
\* history: snap.on records that the teardown has run
StartBeforeTeardown(p, op, uri) == ~snap.on /\ Start(p, op, uri)

Teardown ==
    /\ ~snap.on
    /\ Clear
    /\ snap' = [snap EXCEPT !.on = TRUE]

NextTeardown ==
    \/ \E p \in Procs, op \in Ops, uri \in Uris : StartBeforeTeardown(p, op, uri)
    \/ \E p \in Procs : FinishRead(p)
    \/ \E p \in Procs : Resume(p)
    \/ \E p \in Procs : Return(p)
    \/ Teardown

SpecTeardown == Init /\ [][NextTeardown]_vars

(***************************************************************************)
(* SpecSampler: the samplers applied to a decoded buffer; a behaviour is   *)
(* one call on one buffer                                                  *)
(***************************************************************************)
\* byte k of the buffer with pattern seed; pattern 0 is uniform
GenByte(seed, k) ==
    IF seed = 0 THEN 200 ELSE (seed * (k * k + 3 * k + 1) * 37 + 200 + k) % 256

\* a width x height buffer whose last `missing` bytes are absent
Buffer(width, height, seed, missing) ==
    ImageData([i \in 1 .. (width * height * 4 - missing) |-> GenByte(seed, i - 1)],
              width, height)

\* the uniform 10 x 10 buffer of (255, 0, 0, 255)
Red10x10 ==
    ImageData([i \in 1 .. 400 |-> IF i % 4 \in {0, 1} THEN 255 ELSE 0], 10, 10)

SampleBuffers ==
    {Buffer(w, h, seed, missing) :
        w \in 1 .. MaxW, h \in 1 .. MaxH, seed \in 0 .. MaxSeed, missing \in 0 .. MaxMissing}
    \cup {Red10x10}

\* the coordinates tried on a buffer: all of it and a margin around it
XRange == (0 - CoordMargin) .. (sData.width - 1 + CoordMargin)

YRange == (0 - CoordMargin) .. (sData.height - 1 + CoordMargin)

SamplerInit ==
    /\ CacheInit
    /\ LibraryIdle
    /\ sData \in SampleBuffers
    /\ sCall = [op |-> "none", x |-> 0, y |-> 0, radius |-> 0]
    /\ sResult = Null

\* getColorAtPixel(uri, x, y) on the buffer of uri
SamplePoint(x, y) ==
    /\ sCall.op = "none"
    /\ sCall' = [op |-> "getColorAtPixel", x |-> x, y |-> y, radius |-> 0]
    /\ sResult' = getColorAtPixel(sData, x, y)
    /\ UNCHANGED <<sData, cacheVars, libraryVars>>

\* extractRegionAverageColor(uri, centerX, centerY, radius)
SampleRegion(centerX, centerY, radius) ==
    /\ sCall.op = "none"
    /\ sCall' = [op |-> "extractRegionAverageColor",
                 x |-> centerX, y |-> centerY, radius |-> radius]
    /\ sResult' = extractRegionAverageColor(sData, centerX, centerY, radius)
    /\ UNCHANGED <<sData, cacheVars, libraryVars>>

\* extractCenterColor(uri): getColorAtPixel at the centre
SampleCenter ==
    LET centerX == sData.width \div 2
        centerY == sData.height \div 2
    IN  /\ sCall.op = "none"
        /\ sCall' = [op |-> "extractCenterColor", x |-> centerX, y |-> centerY, radius |-> 0]
        /\ sResult' = getColorAtPixel(sData, centerX, centerY)
        /\ UNCHANGED <<sData, cacheVars, libraryVars>>

\* extractMultipleColors(uri, gridSize)
SampleGrid(gridSize) ==
    /\ sCall.op = "none"
    /\ sCall' = [op |-> "extractMultipleColors", x |-> 0, y |-> 0, radius |-> 0,
                 gridSize |-> gridSize]
    /\ sResult' = extractMultipleColors(sData, gridSize)
    /\ UNCHANGED <<sData, cacheVars, libraryVars>>

NextSampler ==
    \/ \E x \in XRange, y \in YRange : SamplePoint(x, y)
    \/ \E x \in XRange, y \in YRange, radius \in 0 .. MaxRadius : SampleRegion(x, y, radius)
    \/ SampleCenter
    \/ \E gridSize \in 1 .. MaxGrid : SampleGrid(gridSize)

SpecSampler == SamplerInit /\ [][NextSampler]_vars

(***************************************************************************)
(* The clustering strategies, as functions of the decoded buffer           *)
(***************************************************************************)
\* the index of the entry with key k in a Map kept as a sequence, 0 if absent
KeyIndex(m, k) ==
    IF \E i \in 1 .. Len(m) : m[i].key = k
    THEN CHOOSE i \in 1 .. Len(m) : m[i].key = k
    ELSE 0

\* the place of the first largest score among the places idxs
FirstMax(idxs, score) ==
    CHOOSE j \in 1 .. Len(idxs) :
        /\ \A k \in 1 .. Len(idxs) : score[idxs[k]] <= score[idxs[j]]
        /\ \A k \in 1 .. (j - 1) : score[idxs[k]] < score[idxs[j]]

\* a sequence without its j-th element
Without(s, j) == [k \in 1 .. (Len(s) - 1) |-> IF k < j THEN s[k] ELSE s[k + 1]]

\* Array.prototype.sort with the comparator (a, b) => score(b) - score(a):
\* the places 1..n by non-increasing score, equal scores in their old order
RECURSIVE SortedPlaces(_, _)
SortedPlaces(idxs, score) ==
    IF idxs = << >> THEN << >>
    ELSE LET j == FirstMax(idxs, score)
         IN  <<idxs[j]>> \o SortedPlaces(Without(idxs, j), score)

\* mutant: the entries stay in the order of their insertion
SortNone(s, score) == s

SortDescending(s, score) ==
    LET order == SortedPlaces([i \in 1 .. Len(s) |-> i], score)
    IN  [i \in 1 .. Len(s) |-> s[order[i]]]

\* Array.prototype.slice(0, n) for an integer n >= 0
SliceFirst(s, n) == SubSeq(s, 1, Min(n, Len(s)))

\* Math.floor(channel / width) * width
Quantize(channel, width) == (channel \div width) * width

\* mutant: the sampling loop visits every pixel
StepEvery(sampleRate) == 1

\* the stride of extractDominantColors
StepOf(sampleRate) == Max(1, sampleRate)

\* the histogram after one pixel of extractDominantColors
DominantTally(colorCounts, r, g, b, a) ==
    LET quantizedR == Quantize(r, 32)
        quantizedG == Quantize(g, 32)
        quantizedB == Quantize(b, 32)
        key == <<quantizedR, quantizedG, quantizedB>>
        at == KeyIndex(colorCounts, key)
    IN  IF at # 0
        THEN [colorCounts EXCEPT ![at].count = @ + 1]
        ELSE Append(colorCounts,
                    [key |-> key,
                     color |-> ColorResult(quantizedR, quantizedG, quantizedB, a),
                     count |-> 1])

\* one pass of the loop body of extractDominantColors, at pixel i; the
\* break on a short buffer leaves the histogram as it is, as it does for
\* every later pixel
DominantVisit(colorCounts, pixels, i) ==
    LET pixelIndex == i * 4
    IN  IF pixelIndex + 3 >= Len(pixels) THEN colorCounts
        ELSE LET a == ByteAt(pixels, pixelIndex + 3)
             IN  IF a < 128 THEN colorCounts
                 ELSE DominantTally(colorCounts, ByteAt(pixels, pixelIndex),
                                    ByteAt(pixels, pixelIndex + 1),
                                    ByteAt(pixels, pixelIndex + 2), a)

\* the number of passes of "for (i = 0; i < totalPixels; i += step)"
Passes(totalPixels, step) == (totalPixels + step - 1) \div step

\* the passes lo .. hi - 1 of the sampling loop, in order (pass k is at
\* pixel k * step); the range is halved and its first half evaluated
\* before the second, to keep the evaluation shallow
RECURSIVE DominantLoop(_, _, _, _, _)
DominantLoop(colorCounts, pixels, step, lo, hi) ==
    IF lo >= hi THEN colorCounts
    ELSE IF hi = lo + 1 THEN DominantVisit(colorCounts, pixels, lo * step)
    ELSE LET mid == (lo + hi) \div 2
             first == DominantLoop(colorCounts, pixels, step, lo, mid)
         IN  IF Len(first) >= 0
             THEN DominantLoop(first, pixels, step, mid, hi)
             ELSE first

\* the scores of the entries of a histogram, by place
Scores(m) == [i \in 1 .. Len(m) |-> m[i].score]

\* the colours of a sequence of histogram entries: .map((item) => item.color)
ColorsOf(entries) == [i \in 1 .. Len(entries) |-> entries[i].color]

\* the histogram of extractDominantColors, each entry with the value it is
\* sorted by
DominantCounts(imageData, sampleRate) ==
    LET step == StepOf(sampleRate)
        colorCounts == DominantLoop(<< >>, imageData.pixels, step, 0,
                                    Passes(imageData.width * imageData.height, step))
    IN  [i \in 1 .. Len(colorCounts) |->
            [color |-> colorCounts[i].color, score |-> colorCounts[i].count]]

\* the sorted and sliced entries of extractDominantColors
DominantRanked(imageData, maxColors, sampleRate) ==
    LET colorCounts == DominantCounts(imageData, sampleRate)
    IN  SliceFirst(SortDescending(colorCounts, Scores(colorCounts)), maxColors)

\* extractDominantColors after its await, for integers maxColors >= 0 and
\* sampleRate; the result is a sequence of ColorResult
extractDominantColors(imageData, maxColors, sampleRate) ==
    IF imageData = Null THEN Returned(<< >>)
    ELSE Returned(ColorsOf(DominantRanked(imageData, maxColors, sampleRate)))

\* 1000 * 255 times the weight of a pixel of extractPerceptualColors:
\* luminance = 0.299 r + 0.587 g + 0.114 b, weight = max(0.1, luminance / 255)
WeightScale == 255000

PerceptualWeight(r, g, b) == Max(WeightScale \div 10, 299 * r + 587 * g + 114 * b)

\* the histogram after one pixel of extractPerceptualColors
PerceptualTally(colorCounts, r, g, b, a) ==
    LET quantizedR == Quantize(r, 24)
        quantizedG == Quantize(g, 16)
        quantizedB == Quantize(b, 32)
        weight == PerceptualWeight(r, g, b)
        key == <<quantizedR, quantizedG, quantizedB>>
        at == KeyIndex(colorCounts, key)
    IN  IF at # 0
        THEN [colorCounts EXCEPT ![at].count = @ + 1, ![at].weight = @ + weight]
        ELSE Append(colorCounts,
                    [key |-> key,
                     color |-> ColorResult(quantizedR, quantizedG, quantizedB, a),
                     count |-> 1,
                     weight |-> weight])

\* one pass of the loop body of extractPerceptualColors, at pixel i
PerceptualVisit(colorCounts, pixels, i) ==
    LET pixelIndex == i * 4
    IN  IF pixelIndex + 3 >= Len(pixels) THEN colorCounts
        ELSE LET a == ByteAt(pixels, pixelIndex + 3)
             IN  IF a < 128 THEN colorCounts
                 ELSE PerceptualTally(colorCounts, ByteAt(pixels, pixelIndex),
                                      ByteAt(pixels, pixelIndex + 1),
                                      ByteAt(pixels, pixelIndex + 2), a)

\* the passes lo .. hi - 1 of the sampling loop of extractPerceptualColors
RECURSIVE PerceptualLoop(_, _, _, _, _)
PerceptualLoop(colorCounts, pixels, step, lo, hi) ==
    IF lo >= hi THEN colorCounts
    ELSE IF hi = lo + 1 THEN PerceptualVisit(colorCounts, pixels, lo * step)
    ELSE LET mid == (lo + hi) \div 2
             first == PerceptualLoop(colorCounts, pixels, step, lo, mid)
         IN  IF Len(first) >= 0
             THEN PerceptualLoop(first, pixels, step, mid, hi)
             ELSE first

\* the histogram of extractPerceptualColors, each entry with the value it
\* is sorted by: count * accumulated weight
PerceptualCounts(imageData) ==
    LET totalPixels == imageData.width * imageData.height
        sampleRate == Max(1, totalPixels \div 10000)
        colorCounts == PerceptualLoop(<< >>, imageData.pixels, sampleRate, 0,
                                      Passes(totalPixels, sampleRate))
    IN  [i \in 1 .. Len(colorCounts) |->
            [color |-> colorCounts[i].color,
             score |-> colorCounts[i].count * colorCounts[i].weight]]

PerceptualRanked(imageData, maxColors) ==
    LET colorCounts == PerceptualCounts(imageData)
    IN  SliceFirst(SortDescending(colorCounts, Scores(colorCounts)), maxColors)

\* extractPerceptualColors after its await, for an integer maxColors >= 0
extractPerceptualColors(imageData, maxColors) ==
    IF imageData = Null THEN Returned(<< >>)
    ELSE Returned(ColorsOf(PerceptualRanked(imageData, maxColors)))

\* Math.ceil(Math.sqrt(n)) for an integer n >= 0
CeilSqrt(n) == CHOOSE g \in 0 .. n : g * g >= n /\ (g = 0 \/ (g - 1) * (g - 1) < n)

\* the loop body of getInitialColorCenters at grid cell (i, j); the pixel
\* is at (floor(x), floor(y)), and flooring the smaller of i * stepX +
\* stepX / 2 and width - 1 gives the smaller of their floors
InitialVisit(colors, pixels, width, height, gridSize, i, j) ==
    LET stepX == width \div gridSize
        stepY == height \div gridSize
        x == Min(i * stepX + stepX \div 2, width - 1)
        y == Min(j * stepY + stepY \div 2, height - 1)
        pixelIndex == (y * width + x) * 4
    IN  IF pixelIndex + 3 < Len(pixels) /\ ByteAt(pixels, pixelIndex + 3) > 128
        THEN Append(colors, ColorResult(ByteAt(pixels, pixelIndex),
                                        ByteAt(pixels, pixelIndex + 1),
                                        ByteAt(pixels, pixelIndex + 2),
                                        ByteAt(pixels, pixelIndex + 3)))
        ELSE colors

\* the nested loops of getInitialColorCenters from cell (i, j) on: i outer,
\* j inner, both stopped once targetColors * 2 colours are collected
RECURSIVE InitialLoop(_, _, _, _, _, _, _, _)
InitialLoop(colors, pixels, width, height, targetColors, gridSize, i, j) ==
    IF ~(i < gridSize /\ Len(colors) < targetColors * 2) THEN colors
    ELSE IF ~(j < gridSize /\ Len(colors) < targetColors * 2)
         THEN InitialLoop(colors, pixels, width, height, targetColors, gridSize, i + 1, 0)
         ELSE InitialLoop(InitialVisit(colors, pixels, width, height, gridSize, i, j),
                          pixels, width, height, targetColors, gridSize, i, j + 1)

\* getInitialColorCenters, for an integer targetColors >= 0
getInitialColorCenters(pixels, width, height, targetColors) ==
    InitialLoop(<< >>, pixels, width, height, targetColors,
                CeilSqrt(targetColors * 2), 0, 0)

\* the square of getColorDistance; Math.sqrt keeps the order of the sums
SquaredDistance(r, g, b, color2) ==
    (r - color2.r) * (r - color2.r) + (g - color2.g) * (g - color2.g)
        + (b - color2.b) * (b - color2.b)

\* the place of the nearest initial colour: the scan keeps the first minimum
NearestPlace(initialColors, r, g, b) ==
    CHOOSE n \in 1 .. Len(initialColors) :
        /\ \A k \in 1 .. Len(initialColors) :
               SquaredDistance(r, g, b, initialColors[n])
                   <= SquaredDistance(r, g, b, initialColors[k])
        /\ \A k \in 1 .. (n - 1) :
               SquaredDistance(r, g, b, initialColors[n])
                   < SquaredDistance(r, g, b, initialColors[k])

\* the histogram after one counted pixel of refineColorCenters
RefineTally(colorCounts, nearestColor, r, g, b, a) ==
    LET key == <<nearestColor.r \div 16, nearestColor.g \div 16, nearestColor.b \div 16>>
        at == KeyIndex(colorCounts, key)
    IN  IF at # 0
        THEN [colorCounts EXCEPT ![at].count = @ + 1,
                                 ![at].totalR = @ + r, ![at].totalG = @ + g,
                                 ![at].totalB = @ + b, ![at].totalA = @ + a]
        ELSE Append(colorCounts,
                    [key |-> key, color |-> nearestColor, count |-> 1,
                     totalR |-> r, totalG |-> g, totalB |-> b, totalA |-> a])

\* one pass of the loop body of refineColorCenters, at pixel i; the state
\* is the histogram, or thrown: with no initial colour, initialColors[0] is
\* undefined and getColorDistance reads a property of it
RefineVisit(st, pixels, initialColors, i) ==
    LET pixelIndex == i * 4
    IN  IF st.thrown \/ pixelIndex + 3 >= Len(pixels) THEN st
        ELSE LET r == ByteAt(pixels, pixelIndex)
                 g == ByteAt(pixels, pixelIndex + 1)
                 b == ByteAt(pixels, pixelIndex + 2)
                 a == ByteAt(pixels, pixelIndex + 3)
             IN  IF a < 128 THEN st
                 ELSE IF Len(initialColors) = 0 THEN [st EXCEPT !.thrown = TRUE]
                 ELSE [st EXCEPT !.counts =
                          RefineTally(@, initialColors[NearestPlace(initialColors, r, g, b)],
                                      r, g, b, a)]

\* the passes lo .. hi - 1 of the sampling loop of refineColorCenters
RECURSIVE RefineLoop(_, _, _, _, _, _)
RefineLoop(st, pixels, initialColors, sampleRate, lo, hi) ==
    IF lo >= hi THEN st
    ELSE IF hi = lo + 1 THEN RefineVisit(st, pixels, initialColors, lo * sampleRate)
    ELSE LET mid == (lo + hi) \div 2
             first == RefineLoop(st, pixels, initialColors, sampleRate, lo, mid)
         IN  IF first.thrown THEN first
             ELSE RefineLoop(first, pixels, initialColors, sampleRate, mid, hi)

\* the entries of refineColorCenters, sorted by count and sliced to the
\* number of initial colours, each with its average colour and its count,
\* unless the loop threw
RefineRanked(pixels, width, height, initialColors, sampleRate) ==
    LET st == RefineLoop([thrown |-> FALSE, counts |-> << >>], pixels, initialColors,
                         sampleRate, 0, Passes(width * height, sampleRate))
        colorCounts ==
            [i \in 1 .. Len(st.counts) |->
                [color |-> ColorResult(MathRoundDiv(st.counts[i].totalR, st.counts[i].count),
                                       MathRoundDiv(st.counts[i].totalG, st.counts[i].count),
                                       MathRoundDiv(st.counts[i].totalB, st.counts[i].count),
                                       MathRoundDiv(st.counts[i].totalA, st.counts[i].count)),
                 score |-> st.counts[i].count]]
    IN  [thrown |-> st.thrown,
         entries |-> SliceFirst(SortDescending(colorCounts, Scores(colorCounts)),
                                Len(initialColors))]

\* the sample rate of extractAdaptiveColors
AdaptiveRate(qualityLevel) == Max(1, 6 - qualityLevel)

\* the body of the try block of extractAdaptiveColors after its await, for
\* integers targetColors >= 0 and qualityLevel
AdaptiveRanked(imageData, targetColors, qualityLevel) ==
    RefineRanked(imageData.pixels, imageData.width, imageData.height,
                 getInitialColorCenters(imageData.pixels, imageData.width,
                                        imageData.height, targetColors),
                 AdaptiveRate(qualityLevel))

\* mutant: the exception of refineColorCenters leaves extractAdaptiveColors
AdaptiveUncaught(ranked) ==
    IF ranked.thrown THEN Thrown ELSE Returned(ColorsOf(ranked.entries))

\* "catch (error) { ...; return []; }"
AdaptiveCaught(ranked) ==
    IF ranked.thrown THEN Returned(<< >>) ELSE Returned(ColorsOf(ranked.entries))

\* extractAdaptiveColors after its await
extractAdaptiveColors(imageData, targetColors, qualityLevel) ==
    IF imageData = Null THEN Returned(<< >>)
    ELSE AdaptiveCaught(AdaptiveRanked(imageData, targetColors, qualityLevel))

(***************************************************************************)
(* SpecCluster: the clustering strategies applied to a decoded buffer, or  *)
(* to the null of a failed load; a behaviour is one call on one buffer     *)
(***************************************************************************)
\* the pixels the sampled buffers are made of: two opaque primaries, a
\* pixel of the red bucket with alpha 128, a pixel with alpha 127, and an
\* opaque green
Palette ==
    << <<255, 0, 0, 255>>, <<0, 0, 255, 255>>, <<230, 10, 5, 128>>,
       <<9, 9, 9, 127>>, <<0, 200, 0, 255>> >>

\* pattern without its i lowest digits in base Len(Palette)
RECURSIVE DropDigits(_, _)
DropDigits(pattern, i) ==
    IF i = 0 \/ pattern = 0 THEN pattern
    ELSE DropDigits(pattern \div Len(Palette), i - 1)

\* pixel i of the buffer numbered pattern: the i-th digit of pattern in
\* base Len(Palette) picks its palette entry
PatternPixel(pattern, i) == Palette[(DropDigits(pattern, i) % Len(Palette)) + 1]

\* a width x height buffer whose last `missing` bytes are absent
PatternBuffer(width, height, pattern, missing) ==
    ImageData([k \in 1 .. (width * height * 4 - missing) |->
                   PatternPixel(pattern, (k - 1) \div 4)[((k - 1) % 4) + 1]],
              width, height)

ClusterBuffers ==
    {PatternBuffer(w, h, pattern, missing) :
        w \in 1 .. MaxClusterW, h \in 1 .. MaxClusterH,
        pattern \in 0 .. MaxPattern, missing \in 0 .. MaxMissing}
    \cup {Red10x10}

ClusterInit ==
    /\ CacheInit
    /\ LibraryIdle
    /\ sData \in ClusterBuffers \cup {Null}
    /\ sCall = [op |-> "none", x |-> 0, y |-> 0, radius |-> 0]
    /\ sResult = Null

\* extractDominantColors(uri, maxColors, sampleRate) on the buffer of uri
ClusterDominant(maxColors, sampleRate) ==
    /\ sCall.op = "none"
    /\ sCall' = [op |-> "extractDominantColors",
                 maxColors |-> maxColors, sampleRate |-> sampleRate]
    /\ sResult' = extractDominantColors(sData, maxColors, sampleRate)
    /\ UNCHANGED <<sData, cacheVars, libraryVars>>

\* extractPerceptualColors(uri, maxColors)
ClusterPerceptual(maxColors) ==
    /\ sCall.op = "none"
    /\ sCall' = [op |-> "extractPerceptualColors", maxColors |-> maxColors]
    /\ sResult' = extractPerceptualColors(sData, maxColors)
    /\ UNCHANGED <<sData, cacheVars, libraryVars>>

\* extractAdaptiveColors(uri, targetColors, qualityLevel)
ClusterAdaptive(targetColors, qualityLevel) ==
    /\ sCall.op = "none"
    /\ sCall' = [op |-> "extractAdaptiveColors",
                 maxColors |-> targetColors, qualityLevel |-> qualityLevel]
    /\ sResult' = extractAdaptiveColors(sData, targetColors, qualityLevel)
    /\ UNCHANGED <<sData, cacheVars, libraryVars>>

NextCluster ==
    \/ \E maxColors \in 0 .. MaxColors, sampleRate \in 0 .. MaxRate :
           ClusterDominant(maxColors, sampleRate)
    \/ \E maxColors \in 0 .. MaxColors : ClusterPerceptual(maxColors)
    \/ \E targetColors \in 0 .. MaxColors, qualityLevel \in 0 .. MaxQuality :
           ClusterAdaptive(targetColors, qualityLevel)

SpecCluster == ClusterInit /\ [][NextCluster]_vars

(***************************************************************************)
(* The colour conversions of libraryStorage.ts.  A string is a sequence of *)
(* one-character strings.  The conversions compute in doubles: a quotient  *)
(* is modelled by its exact value n / d, and Math.round of it by the       *)
(* integers the rounding can give.                                         *)
(***************************************************************************)
\* mutant: Math.round always rounds an exact half up
RoundHalfUp(n, d) == {(2 * n + d) \div (2 * d)}

\* Math.round(x) for the double x computed for n / d, d > 0: the nearest
\* integer, and at an exact half either neighbour, as x may have been
\* rounded to either side of the half
RoundSet(n, d) ==
    IF (2 * n + d) % (2 * d) = 0
    THEN {((2 * n + d) \div (2 * d)) - 1, (2 * n + d) \div (2 * d)}
    ELSE {(2 * n + d) \div (2 * d)}

\* a % n of JavaScript for n > 0: the remainder has the sign of a
JsRem(a, n) == IF a >= 0 THEN a % n ELSE 0 - ((0 - a) % n)

\* Math.min(hi, Math.max(lo, x))
Clamp(x, lo, hi) == Min(hi, Max(lo, x))

\* the digits of Number.prototype.toString(16)
HexLower ==
    <<"0", "1", "2", "3", "4", "5", "6", "7", "8", "9", "a", "b", "c", "d", "e", "f">>

\* the digits parseInt(_, 16) also accepts
HexUpper ==
    <<"0", "1", "2", "3", "4", "5", "6", "7", "8", "9", "A", "B", "C", "D", "E", "F">>

\* n.toString(16) for an integer 0 <= n <= 255
ToString16(n) ==
    IF n < 16 THEN <<HexLower[n + 1]>>
    ELSE <<HexLower[(n \div 16) + 1], HexLower[(n % 16) + 1]>>

\* mutant: a one-digit channel is not padded
PadNone(hex) == hex

\* "hex.length === 1 ? '0' + hex : hex"
PadHex(hex) == IF Len(hex) = 1 THEN <<"0">> \o hex ELSE hex

\* rgbToHex for integers r, g, b
rgbToHex(r, g, b) ==
    <<"#">> \o PadHex(ToString16(Clamp(r, 0, 255)))
            \o PadHex(ToString16(Clamp(g, 0, 255)))
            \o PadHex(ToString16(Clamp(b, 0, 255)))

\* NaN, kept apart from every number parseInt can give here
NaN == 0 - 1

\* the value of a hexadecimal digit, -1 for any other character
DigitValue(ch) ==
    IF \E i \in 1 .. 16 : HexLower[i] = ch THEN (CHOOSE i \in 1 .. 16 : HexLower[i] = ch) - 1
    ELSE IF \E i \in 1 .. 16 : HexUpper[i] = ch
    THEN (CHOOSE i \in 1 .. 16 : HexUpper[i] = ch) - 1
    ELSE 0 - 1

\* parseInt(str, 16) for a string of at most two characters without
\* whitespace, sign or "0x": the leading hexadecimal digits, NaN if there are none
ParseInt16(str) ==
    IF Len(str) = 0 \/ DigitValue(str[1]) < 0 THEN NaN
    ELSE IF Len(str) = 1 \/ DigitValue(str[2]) < 0 THEN DigitValue(str[1])
    ELSE 16 * DigitValue(str[1]) + DigitValue(str[2])

\* String.prototype.substring(from, to) for 0 <= from <= to
Substring(str, from, to) == SubSeq(str, Min(from, Len(str)) + 1, Min(to, Len(str)))

\* hexToRgb of libraryStorage.ts
hexToRgb(hex) ==
    LET bare == IF Len(hex) > 0 /\ hex[1] = "#" THEN Tail(hex) ELSE hex
        full == IF Len(bare) = 3
                THEN <<bare[1], bare[1], bare[2], bare[2], bare[3], bare[3]>>
                ELSE bare
    IN  [r |-> ParseInt16(Substring(full, 0, 2)),
         g |-> ParseInt16(Substring(full, 2, 4)),
         b |-> ParseInt16(Substring(full, 4, 6))]

\* rgbToHsl for integers r, g, b in 0..255: the set of results the
\* roundings allow, h in degrees, s and l in percent
rgbToHsl(r, g, b) ==
    LET max == Max(r, Max(g, b))
        min == Min(r, Min(g, b))
        d == max - min
        lightness == RoundSet(100 * (max + min), 510)
        saturation == IF max + min > 255 THEN RoundSet(100 * d, 510 - max - min)
                      ELSE RoundSet(100 * d, max + min)
        hue == IF max = r THEN RoundSet(60 * (g - b) + (IF g < b THEN 360 * d ELSE 0), d)
               ELSE IF max = g THEN RoundSet(60 * (b - r) + 120 * d, d)
               ELSE RoundSet(60 * (r - g) + 240 * d, d)
    IN  IF max = min THEN {[h |-> 0, s |-> 0, l |-> l] : l \in lightness}
        ELSE {[h |-> h, s |-> s, l |-> l] : h \in hue, s \in saturation, l \in lightness}

\* rgbToHsv for integers r, g, b in 0..255: the set of results the
\* roundings allow, h in degrees, s and v in percent
rgbToHsv(r, g, b) ==
    LET max == Max(r, Max(g, b))
        min == Min(r, Min(g, b))
        d == max - min
        saturation == IF max = 0 THEN {0} ELSE RoundSet(100 * d, max)
        value == RoundSet(100 * max, 255)
        hue == IF max = min THEN {0}
               ELSE IF max = r
               THEN RoundSet(60 * (g - b) + (IF g < b THEN 360 * d ELSE 0), d)
               ELSE IF max = g THEN RoundSet(60 * (b - r) + 120 * d, d)
               ELSE RoundSet(60 * (r - g) + 240 * d, d)
    IN  {[h |-> h, s |-> s, v |-> v] : h \in hue, s \in saturation, v \in value}

\* rgbToYuv for integers r, g, b in 0..255: the set of results the
\* roundings allow, y, u and v in hundredths.  Y is y * 5000 * 255; the two
\* fractions are 0.492 * (b / 255 - y) and 0.877 * (r / 255 - y) in lowest
\* terms over a common scale
rgbToYuv(r, g, b) ==
    LET Y == 1063 * r + 3576 * g + 361 * b
    IN  {[y |-> y, u |-> u, v |-> v] :
            y \in RoundSet(Y, 12750),
            u \in RoundSet(123 * (5000 * b - Y), 3187500),
            v \in RoundSet(877 * (5000 * r - Y), 12750000)}

\* hueToRgb(p, q, t) of hslToRgb times 600000, for p = P / 10000,
\* q = Q / 10000 and t = T / 360
HueToRgb(P, Q, T) ==
    LET t == IF T < 0 THEN T + 360 ELSE IF T > 360 THEN T - 360 ELSE T
    IN  IF t < 60 THEN 60 * P + (Q - P) * t
        ELSE IF t < 180 THEN 60 * Q
        ELSE IF t < 240 THEN 60 * P + (Q - P) * (240 - t)
        ELSE 60 * P

\* mutant: the hue is used as given, not wrapped into 0..359
WrapNone(h) == h

\* "h = ((h % 360) + 360) % 360"
WrapHue(h) == JsRem(JsRem(h, 360) + 360, 360)

\* mutant: a percentage is used as given
ClampNone(x) == x

\* "Math.min(100, Math.max(0, s))"
ClampPercent(x) == Clamp(x, 0, 100)

\* hslToRgb for integers h, s, l: the set of results the roundings allow
hslToRgb(h, s, l) ==
    LET hue == WrapHue(h)
        S == ClampPercent(s)
        L == ClampPercent(l)
        Q == IF L < 50 THEN L * (100 + S) ELSE 100 * L + 100 * S - L * S
        P == 200 * L - Q
    IN  IF S = 0 THEN {[r |-> value, g |-> value, b |-> value] : value \in RoundSet(255 * L, 100)}
        ELSE {[r |-> r, g |-> g, b |-> b] :
                 r \in RoundSet(255 * HueToRgb(P, Q, hue + 120), 600000),
                 g \in RoundSet(255 * HueToRgb(P, Q, hue), 600000),
                 b \in RoundSet(255 * HueToRgb(P, Q, hue - 120), 600000)}

\* mutant: pure black is given no key
CmykNoKey == [c |-> 0, m |-> 0, y |-> 0, k |-> 0]

\* "if (k === 1) return { c: 0, m: 0, y: 0, k: 1 }", in hundredths
CmykBlack == [c |-> 0, m |-> 0, y |-> 0, k |-> 100]

\* rgbToCmyk for integers r, g, b in 0..255: the set of results the
\* roundings allow, each component in hundredths (Math.round(c * 100) / 100
\* is the double nearest to that many hundredths).  k = 1 - max / 255 is
\* 1 only for max = 0; otherwise c = (1 - r / 255 - k) / (1 - k), which is
\* (max - r) / max, and the divisor 1 - k is not 0.
rgbToCmyk(r, g, b) ==
    LET max == Max(r, Max(g, b))
    IN  IF max = 0 THEN {CmykBlack}
        ELSE {[c |-> c, m |-> m, y |-> y, k |-> k] :
                 c \in RoundSet(100 * (max - r), max),
                 m \in RoundSet(100 * (max - g), max),
                 y \in RoundSet(100 * (max - b), max),
                 k \in RoundSet(100 * (255 - max), 255)}

\* the outcome "throw new Error(`Unsupported format conversion <direction>:
\* <format>`)"
Unsupported(direction, format) ==
    [tag |-> "Error", direction |-> direction, format |-> format]

\* the outcome "return value"
Value(value) == [tag |-> "value", value |-> value]

\* the result of a conversion the model does not compute (hsv, yuv, lab, ryb
\* and cmykToRgb), kept as the application of the function to its argument
Applied(fn, arg) == [fn |-> fn, arg |-> arg]

IsApplied(x) == "fn" \in DOMAIN x

\* the cases of "switch (fromFormat)"
SourceFormats == {"rgb", "hex", "hsl", "hsv", "cmyk", "yuv", "ryb"}

\* the cases of "switch (toFormat)"
TargetFormats == {"rgb", "hex", "hsl", "hsv", "cmyk", "yuv", "lab", "ryb"}

\* the first switch of convertColor: the colours rgb can be
SourceToRgb(color, fromFormat) ==
    CASE fromFormat = "rgb"  -> {color}
      [] fromFormat = "hex"  -> {hexToRgb(color)}
      [] fromFormat = "hsl"  -> hslToRgb(color.h, color.s, color.l)
      [] fromFormat = "hsv"  -> {Applied("hsvToRgb", color)}
      [] fromFormat = "cmyk" -> {Applied("cmykToRgb", color)}
      [] fromFormat = "yuv"  -> {Applied("yuvToRgb", color)}
      [] fromFormat = "ryb"  -> {Applied("rybToRgb", color)}

\* the second switch of convertColor: the values returned for rgb
RgbToTarget(rgb, toFormat) ==
    CASE toFormat = "rgb"  -> {rgb}
      [] toFormat = "hex"  -> IF IsApplied(rgb) THEN {Applied("rgbToHex", rgb)}
                              ELSE {rgbToHex(rgb.r, rgb.g, rgb.b)}
      [] toFormat = "hsl"  -> IF IsApplied(rgb) THEN {Applied("rgbToHsl", rgb)}
                              ELSE rgbToHsl(rgb.r, rgb.g, rgb.b)
      [] toFormat = "hsv"  -> {Applied("rgbToHsv", rgb)}
      [] toFormat = "cmyk" -> IF IsApplied(rgb) THEN {Applied("rgbToCmyk", rgb)}
                              ELSE rgbToCmyk(rgb.r, rgb.g, rgb.b)
      [] toFormat = "yuv"  -> {Applied("rgbToYuv", rgb)}
      [] toFormat = "lab"  -> {Applied("rgbToLab", rgb)}
      [] toFormat = "ryb"  -> {Applied("rgbToRyb", rgb)}

\* mutant: the target format is validated before the source format
convertColorTargetFirst(color, fromFormat, toFormat) ==
    IF toFormat \notin TargetFormats
    THEN {Unsupported("to", toFormat)}
    ELSE IF fromFormat \notin SourceFormats
         THEN {Unsupported("from", fromFormat)}
         ELSE {Value(v) : v \in UNION {RgbToTarget(rgb, toFormat) :
                                         rgb \in SourceToRgb(color, fromFormat)}}

\* convertColor(color, fromFormat, toFormat): the set of its outcomes
convertColor(color, fromFormat, toFormat) ==
    IF fromFormat \notin SourceFormats
    THEN {Unsupported("from", fromFormat)}
    ELSE IF toFormat \notin TargetFormats
         THEN {Unsupported("to", toFormat)}
         ELSE {Value(v) : v \in UNION {RgbToTarget(rgb, toFormat) :
                                         rgb \in SourceToRgb(color, fromFormat)}}

(***************************************************************************)
(* SpecConvert: the conversions applied to sampled colours; a behaviour is *)
(* one call on one colour                                                  *)
(***************************************************************************)
\* the sampled channel values: every ChannelStep-th value, and the
\* MaxEdge + 1 lowest and highest ones
Channels ==
    {c \in 0 .. 255 : c % ChannelStep = 0 \/ c <= MaxEdge \/ c >= 255 - MaxEdge}

\* the colours given to the conversions
RgbInputs == {[tag |-> "rgb", r |-> r, g |-> g, b |-> b] :
                 r \in Channels, g \in Channels, b \in Channels}

\* the sampled hues: every 15th degree of -MaxHue .. MaxHue and the
\* neighbours of 0 and 360
Hues == {h \in (0 - MaxHue) .. MaxHue : h % 15 = 0 \/ h \in {0 - 1, 1, 359, 361}}

HslInputs == {[tag |-> "hsl", h |-> h, s |-> s, l |-> l] :
                 h \in Hues, s \in (0 - MaxEdge) .. MaxEdge, l \in 0 .. 100}

\* the format tags given to convertColor: the eight of its signature and two
\* others
FormatTags == TargetFormats \cup {"zzz", ""}

\* the colours given to convertColor for a source format
ColorsFor(fromFormat) ==
    CASE fromFormat = "hex"  -> {<<"#", "f", "f", "0", "0", "0", "0">>,
                                 <<"F", "0", "0">>,
                                 <<"#", "1", "2", "3", "4", "5", "6">>}
      [] fromFormat = "hsl"  -> {[h |-> 0, s |-> 100, l |-> 50],
                                 [h |-> 0 - 390, s |-> 0, l |-> 40],
                                 [h |-> 200, s |-> 35, l |-> 70]}
      [] fromFormat = "hsv"  -> {[h |-> 0, s |-> 100, v |-> 100]}
      [] fromFormat = "cmyk" -> {[c |-> 0, m |-> 100, y |-> 100, k |-> 0]}
      [] fromFormat = "yuv"  -> {[y |-> 76, u |-> 84, v |-> 255]}
      [] fromFormat = "lab"  -> {[l |-> 53, a |-> 80, b |-> 67]}
      [] fromFormat = "ryb"  -> {[r |-> 255, y |-> 0, b |-> 0]}
      [] OTHER               -> {[r |-> 255, g |-> 0, b |-> 0],
                                 [r |-> 0, g |-> 0, b |-> 2],
                                 [r |-> 18, g |-> 52, b |-> 86]}

\* the calls of convertColor for the source formats in formats
DispatchInputs(formats) ==
    {[tag |-> "convert", color |-> fc[2], fromFormat |-> fc[1], toFormat |-> t] :
        fc \in UNION {{<<f, c>> : c \in ColorsFor(f)} : f \in formats},
        t \in FormatTags}

\* the strings given to hexToRgb of libraryStorage.ts: six digits, the
\* shorthand, and strings of other lengths or with other characters (none
\* with a blank, a sign or "0x", which ParseInt16 does not model)
HexStrings ==
    {<<"#", "f", "f", "0", "0", "0", "0">>, <<"1", "2", "3", "A", "B", "C">>,
     <<"#", "F", "0", "0">>, <<"a", "b", "c">>,
     <<>>, <<"#">>, <<"#", "F", "F">>, <<"#", "F", "0", "0", "F">>,
     <<"#", "F", "F", "0", "0", "F">>, <<"#", "F", "F", "0", "0", "0", "0", "0">>,
     <<"#", "G", "G", "0", "0", "0", "0">>, <<"#", "1", "2", "3", "4", "5", "G">>,
     <<"#", "1", "G", "3", "4", "5", "6">>, <<"x", "y", "z">>,
     <<"w", "h", "i", "t", "e">>, <<"F", "F", "0", "0", "0", "0", "#">>}

HexStringInputs == {[tag |-> "string", hex |-> hex] : hex \in HexStrings}

ConvertInputs == RgbInputs \cup HslInputs \cup DispatchInputs(FormatTags \ {"hex"})
                     \cup HexStringInputs

\* the calls of convertColor with a string for the colour
HexInputs == DispatchInputs({"hex"})

ConvertInit ==
    /\ CacheInit
    /\ LibraryIdle
    /\ sData \in ConvertInputs \/ sData \in HexInputs
    /\ sCall = [op |-> "none", x |-> 0, y |-> 0, radius |-> 0]
    /\ sResult = Null

\* hexToRgb(rgbToHex(r, g, b)) for the colour (r, g, b) = sData
HexRoundTrip ==
    /\ sCall.op = "none"
    /\ sData.tag = "rgb"
    /\ sCall' = [op |-> "rgbToHex", r |-> sData.r, g |-> sData.g, b |-> sData.b]
    /\ sResult' = [hex |-> rgbToHex(sData.r, sData.g, sData.b),
                   rgb |-> hexToRgb(rgbToHex(sData.r, sData.g, sData.b))]
    /\ UNCHANGED <<sData, cacheVars, libraryVars>>

\* hslToRgb(h, s, l) for {h, s, l} = rgbToHsl(r, g, b)
HslRoundTrip ==
    /\ sCall.op = "none"
    /\ sData.tag = "rgb"
    /\ sCall' = [op |-> "rgbToHsl", r |-> sData.r, g |-> sData.g, b |-> sData.b]
    /\ \E hsl \in rgbToHsl(sData.r, sData.g, sData.b) :
           \E rgb \in hslToRgb(hsl.h, hsl.s, hsl.l) :
               sResult' = [hsl |-> hsl, rgb |-> rgb]
    /\ UNCHANGED <<sData, cacheVars, libraryVars>>

\* rgbToCmyk(r, g, b)
ToCmyk ==
    /\ sCall.op = "none"
    /\ sData.tag = "rgb"
    /\ sCall' = [op |-> "rgbToCmyk", r |-> sData.r, g |-> sData.g, b |-> sData.b]
    /\ sResult' \in rgbToCmyk(sData.r, sData.g, sData.b)
    /\ UNCHANGED <<sData, cacheVars, libraryVars>>

\* hslToRgb(h, s, l)
FromHsl ==
    /\ sCall.op = "none"
    /\ sData.tag = "hsl"
    /\ sCall' = [op |-> "hslToRgb", h |-> sData.h, s |-> sData.s, l |-> sData.l]
    /\ sResult' \in hslToRgb(sData.h, sData.s, sData.l)
    /\ UNCHANGED <<sData, cacheVars, libraryVars>>

\* convertColor(color, fromFormat, toFormat)
Dispatch ==
    /\ sCall.op = "none"
    /\ sData.tag = "convert"
    /\ sCall' = [op |-> "convertColor", color |-> sData.color,
                 fromFormat |-> sData.fromFormat, toFormat |-> sData.toFormat]
    /\ sResult' \in convertColor(sData.color, sData.fromFormat, sData.toFormat)
    /\ UNCHANGED <<sData, cacheVars, libraryVars>>

\* rgbToHsv(r, g, b)
ToHsv ==
    /\ sCall.op = "none"
    /\ sData.tag = "rgb"
    /\ sCall' = [op |-> "rgbToHsv", r |-> sData.r, g |-> sData.g, b |-> sData.b]
    /\ sResult' \in rgbToHsv(sData.r, sData.g, sData.b)
    /\ UNCHANGED <<sData, cacheVars, libraryVars>>

\* rgbToYuv(r, g, b)
ToYuv ==
    /\ sCall.op = "none"
    /\ sData.tag = "rgb"
    /\ sCall' = [op |-> "rgbToYuv", r |-> sData.r, g |-> sData.g, b |-> sData.b]
    /\ sResult' \in rgbToYuv(sData.r, sData.g, sData.b)
    /\ UNCHANGED <<sData, cacheVars, libraryVars>>

\* hexToRgb(hex) of libraryStorage.ts
ParseHex ==
    /\ sCall.op = "none"
    /\ sData.tag = "string"
    /\ sCall' = [op |-> "hexToRgb", hex |-> sData.hex]
    /\ sResult' = hexToRgb(sData.hex)
    /\ UNCHANGED <<sData, cacheVars, libraryVars>>

NextConvert ==
    \/ HexRoundTrip
    \/ HslRoundTrip
    \/ ToCmyk
    \/ FromHsl
    \/ Dispatch
    \/ ParseHex
    \/ ToHsv
    \/ ToYuv

SpecConvert == ConvertInit /\ [][NextConvert]_vars

(***************************************************************************)
(* The colour names of src/app/types/library.ts.  A string the code reads   *)
(* character by character is a sequence of one-character strings; a name is *)
(* a string, its characters outside ASCII written as in a JavaScript string *)
(* literal (\uXXXX).                                                        *)
(***************************************************************************)
colorList == <<
    [hex |-> <<"#", "F", "0", "F", "8", "F", "F">>, en |-> "AliceBlue", vi |-> "Xanh da tr\\u1eddi"],
    [hex |-> <<"#", "F", "A", "E", "B", "D", "7">>, en |-> "AntiqueWhite", vi |-> "Kem c\\u1ed5"],
    [hex |-> <<"#", "0", "0", "F", "F", "F", "F">>, en |-> "Aqua", vi |-> "Xanh ng\\u1ecdc"],
    [hex |-> <<"#", "7", "F", "F", "F", "D", "4">>, en |-> "Aquamarine", vi |-> "Xanh ng\\u1ecdc lam"],
    [hex |-> <<"#", "F", "0", "F", "F", "F", "F">>, en |-> "Azure", vi |-> "Xanh lam nh\\u1ea1t"],
    [hex |-> <<"#", "F", "5", "F", "5", "D", "C">>, en |-> "Beige", vi |-> "Be"],
    [hex |-> <<"#", "F", "F", "E", "4", "C", "4">>, en |-> "Bisque", vi |-> "Be h\\u1ed3ng"],
    [hex |-> <<"#", "0", "0", "0", "0", "0", "0">>, en |-> "Black", vi |-> "\\u0110en"],
    [hex |-> <<"#", "F", "F", "E", "B", "C", "D">>, en |-> "BlanchedAlmond", vi |-> "V\\u00e0ng ng\\u00e0"],
    [hex |-> <<"#", "0", "0", "0", "0", "F", "F">>, en |-> "Blue", vi |-> "Xanh da tr\\u1eddi"],
    [hex |-> <<"#", "8", "A", "2", "B", "E", "2">>, en |-> "BlueViolet", vi |-> "T\\u00edm xanh"],
    [hex |-> <<"#", "A", "5", "2", "A", "2", "A">>, en |-> "Brown", vi |-> "N\\u00e2u"],
    [hex |-> <<"#", "D", "E", "B", "8", "8", "7">>, en |-> "Burlywood", vi |-> "V\\u00e0ng \\u0111\\u1ea5t"],
    [hex |-> <<"#", "5", "F", "9", "E", "A", "0">>, en |-> "CadetBlue", vi |-> "Xanh da tr\\u1eddi"],
    [hex |-> <<"#", "7", "F", "F", "F", "0", "0">>, en |-> "Chartreuse", vi |-> "Xanh v\\u00e0ng"],
    [hex |-> <<"#", "D", "2", "6", "9", "1", "E">>, en |-> "Chocolate", vi |-> "N\\u00e2u s\\u00f4 c\\u00f4 la"],
    [hex |-> <<"#", "F", "F", "7", "F", "5", "0">>, en |-> "Coral", vi |-> "Cam san h\\u00f4"],
    [hex |-> <<"#", "6", "4", "9", "5", "E", "D">>, en |-> "CornflowerBlue", vi |-> "Xanh ng\\u1ecdc"],
    [hex |-> <<"#", "F", "F", "F", "8", "D", "C">>, en |-> "Cornsilk", vi |-> "V\\u00e0ng ng\\u00f4 nh\\u1ea1t"],
    [hex |-> <<"#", "D", "C", "1", "4", "3", "C">>, en |-> "Crimson", vi |-> "\\u0110\\u1ecf th\\u1eabm"],
    [hex |-> <<"#", "0", "0", "F", "F", "F", "F">>, en |-> "Cyan", vi |-> "Xanh ng\\u1ecdc"],
    [hex |-> <<"#", "0", "0", "0", "0", "8", "B">>, en |-> "DarkBlue", vi |-> "Xanh da tr\\u1eddi \\u0111\\u1eadm"],
    [hex |-> <<"#", "0", "0", "8", "B", "8", "B">>, en |-> "DarkCyan", vi |-> "Xanh l\\u01a1 \\u0111\\u1eadm"],
    [hex |-> <<"#", "B", "8", "8", "6", "0", "B">>, en |-> "DarkGoldenrod", vi |-> "V\\u00e0ng hoe \\u0111\\u1eadm"],
    [hex |-> <<"#", "A", "9", "A", "9", "A", "9">>, en |-> "DarkGray", vi |-> "X\\u00e1m \\u0111\\u1eadm"],
    [hex |-> <<"#", "0", "0", "6", "4", "0", "0">>, en |-> "DarkGreen", vi |-> "Xanh l\\u00e1 \\u0111\\u1eadm"],
    [hex |-> <<"#", "A", "9", "A", "9", "A", "9">>, en |-> "DarkGrey", vi |-> "X\\u00e1m \\u0111\\u1eadm"],
    [hex |-> <<"#", "B", "D", "B", "7", "6", "B">>, en |-> "DarkKhaki", vi |-> "V\\u00e0ng kaki \\u0111\\u1eadm"],
    [hex |-> <<"#", "8", "B", "0", "0", "8", "B">>, en |-> "DarkMagenta", vi |-> "H\\u1ed3ng th\\u1eabm"],
    [hex |-> <<"#", "5", "5", "6", "B", "2", "F">>, en |-> "DarkOliveGreen", vi |-> "Xanh \\u00f4 liu \\u0111\\u1eadm"],
    [hex |-> <<"#", "F", "F", "8", "C", "0", "0">>, en |-> "DarkOrange", vi |-> "Cam \\u0111\\u1eadm"],
    [hex |-> <<"#", "9", "9", "3", "2", "C", "C">>, en |-> "DarkOrchid", vi |-> "T\\u00edm ng\\u1ecdc \\u0111\\u1eadm"],
    [hex |-> <<"#", "8", "B", "0", "0", "0", "0">>, en |-> "DarkRed", vi |-> "\\u0110\\u1ecf \\u0111\\u1eadm"],
    [hex |-> <<"#", "E", "9", "9", "6", "7", "A">>, en |-> "DarkSalmon", vi |-> "Cam \\u0111\\u00e0o \\u0111\\u1eadm"],
    [hex |-> <<"#", "8", "F", "B", "C", "8", "F">>, en |-> "DarkSeaGreen", vi |-> "Xanh ng\\u1ecdc \\u0111\\u1eadm"],
    [hex |-> <<"#", "4", "8", "3", "D", "8", "B">>, en |-> "DarkSlateBlue", vi |-> "Xanh \\u0111en \\u0111\\u1eadm"],
    [hex |-> <<"#", "2", "F", "4", "F", "4", "F">>, en |-> "DarkSlateGray", vi |-> "X\\u00e1m xanh \\u0111\\u1eadm"],
    [hex |-> <<"#", "2", "F", "4", "F", "4", "F">>, en |-> "DarkSlateGrey", vi |-> "X\\u00e1m xanh \\u0111\\u1eadm"],
    [hex |-> <<"#", "0", "0", "C", "E", "D", "1">>, en |-> "DarkTurquoise", vi |-> "Xanh ng\\u1ecdc \\u0111\\u1eadm"],
    [hex |-> <<"#", "9", "4", "0", "0", "D", "3">>, en |-> "DarkViolet", vi |-> "T\\u00edm \\u0111\\u1eadm"],
    [hex |-> <<"#", "F", "F", "1", "4", "9", "3">>, en |-> "DeepPink", vi |-> "H\\u1ed3ng \\u0111\\u1eadm"],
    [hex |-> <<"#", "0", "0", "B", "F", "F", "F">>, en |-> "DeepSkyBlue", vi |-> "Xanh da tr\\u1eddi \\u0111\\u1eadm"],
    [hex |-> <<"#", "6", "9", "6", "9", "6", "9">>, en |-> "DimGray", vi |-> "X\\u00e1m \\u0111\\u1eadm"],
    [hex |-> <<"#", "6", "9", "6", "9", "6", "9">>, en |-> "DimGrey", vi |-> "X\\u00e1m \\u0111\\u1eadm"],
    [hex |-> <<"#", "1", "E", "9", "0", "F", "F">>, en |-> "DodgerBlue", vi |-> "Xanh da tr\\u1eddi"],
    [hex |-> <<"#", "B", "2", "2", "2", "2", "2">>, en |-> "FireBrick", vi |-> "\\u0110\\u1ecf g\\u1ea1ch"],
    [hex |-> <<"#", "F", "F", "F", "A", "F", "0">>, en |-> "FloralWhite", vi |-> "Tr\\u1eafng hoa"],
    [hex |-> <<"#", "2", "2", "8", "B", "2", "2">>, en |-> "ForestGreen", vi |-> "Xanh l\\u1ee5c"],
    [hex |-> <<"#", "F", "F", "0", "0", "F", "F">>, en |-> "Fuchsia", vi |-> "H\\u1ed3ng c\\u00e1nh sen"],
    [hex |-> <<"#", "D", "C", "D", "C", "D", "C">>, en |-> "Gainsboro", vi |-> "X\\u00e1m nh\\u1ea1t"],
    [hex |-> <<"#", "F", "8", "F", "8", "F", "F">>, en |-> "GhostWhite", vi |-> "Tr\\u1eafng ma"],
    [hex |-> <<"#", "F", "F", "D", "7", "0", "0">>, en |-> "Gold", vi |-> "V\\u00e0ng"],
    [hex |-> <<"#", "D", "A", "A", "5", "2", "0">>, en |-> "Goldenrod", vi |-> "V\\u00e0ng hoe"],
    [hex |-> <<"#", "8", "0", "8", "0", "8", "0">>, en |-> "Gray", vi |-> "X\\u00e1m"],
    [hex |-> <<"#", "0", "0", "8", "0", "0", "0">>, en |-> "Green", vi |-> "Xanh l\\u00e1 c\\u00e2y"],
    [hex |-> <<"#", "A", "D", "F", "F", "2", "F">>, en |-> "GreenYellow", vi |-> "V\\u00e0ng l\\u1ee5c"],
    [hex |-> <<"#", "8", "0", "8", "0", "8", "0">>, en |-> "Grey", vi |-> "X\\u00e1m"],
    [hex |-> <<"#", "F", "0", "F", "F", "F", "0">>, en |-> "HoneyDew", vi |-> "Tr\\u1eafng ng\\u1ecdc nh\\u1ea1t"],
    [hex |-> <<"#", "F", "F", "6", "9", "B", "4">>, en |-> "HotPink", vi |-> "H\\u1ed3ng n\\u00f3ng"],
    [hex |-> <<"#", "C", "D", "5", "C", "5", "C">>, en |-> "IndianRed", vi |-> "\\u0110\\u1ecf \\u0111\\u1ea5t"],
    [hex |-> <<"#", "4", "B", "0", "0", "8", "2">>, en |-> "Indigo", vi |-> "Ch\\u00e0m"],
    [hex |-> <<"#", "F", "F", "F", "F", "F", "0">>, en |-> "Ivory", vi |-> "Ng\\u00e0"],
    [hex |-> <<"#", "F", "0", "E", "6", "8", "C">>, en |-> "Khaki", vi |-> "V\\u00e0ng nh\\u1ea1t"],
    [hex |-> <<"#", "E", "6", "E", "6", "F", "A">>, en |-> "Lavender", vi |-> "T\\u00edm o\\u1ea3i h\\u01b0\\u01a1ng"],
    [hex |-> <<"#", "F", "F", "F", "0", "F", "5">>, en |-> "LavenderBlush", vi |-> "T\\u00edm o\\u1ea3i h\\u01b0\\u01a1ng nh\\u1ea1t"],
    [hex |-> <<"#", "7", "C", "F", "C", "0", "0">>, en |-> "LawnGreen", vi |-> "Xanh c\\u1ecf"],
    [hex |-> <<"#", "F", "F", "F", "A", "C", "D">>, en |-> "LemonChiffon", vi |-> "V\\u00e0ng chanh nh\\u1ea1t"],
    [hex |-> <<"#", "A", "D", "D", "8", "E", "6">>, en |-> "LightBlue", vi |-> "Xanh da tr\\u1eddi nh\\u1ea1t"],
    [hex |-> <<"#", "F", "0", "8", "0", "8", "0">>, en |-> "LightCoral", vi |-> "H\\u1ed3ng san h\\u00f4 nh\\u1ea1t"],
    [hex |-> <<"#", "E", "0", "F", "F", "F", "F">>, en |-> "LightCyan", vi |-> "Xanh ng\\u1ecdc nh\\u1ea1t"],
    [hex |-> <<"#", "F", "A", "F", "A", "D", "2">>, en |-> "LightGoldenrodYellow", vi |-> "V\\u00e0ng hoe nh\\u1ea1t"],
    [hex |-> <<"#", "D", "3", "D", "3", "D", "3">>, en |-> "LightGray", vi |-> "X\\u00e1m nh\\u1ea1t"],
    [hex |-> <<"#", "9", "0", "E", "E", "9", "0">>, en |-> "LightGreen", vi |-> "Xanh l\\u00e1 nh\\u1ea1t"],
    [hex |-> <<"#", "D", "3", "D", "3", "D", "3">>, en |-> "LightGrey", vi |-> "X\\u00e1m nh\\u1ea1t"],
    [hex |-> <<"#", "F", "F", "B", "6", "C", "1">>, en |-> "LightPink", vi |-> "H\\u1ed3ng nh\\u1ea1t"],
    [hex |-> <<"#", "F", "F", "A", "0", "7", "A">>, en |-> "LightSalmon", vi |-> "Cam nh\\u1ea1t"],
    [hex |-> <<"#", "2", "0", "B", "2", "A", "A">>, en |-> "LightSeaGreen", vi |-> "Xanh n\\u01b0\\u1edbc bi\\u1ec3n nh\\u1ea1t"],
    [hex |-> <<"#", "8", "7", "C", "E", "F", "A">>, en |-> "LightSkyBlue", vi |-> "Xanh da tr\\u1eddi nh\\u1ea1t"],
    [hex |-> <<"#", "7", "7", "8", "8", "9", "9">>, en |-> "LightSlateGray", vi |-> "X\\u00e1m xanh nh\\u1ea1t"],
    [hex |-> <<"#", "7", "7", "8", "8", "9", "9">>, en |-> "LightSlateGrey", vi |-> "X\\u00e1m xanh nh\\u1ea1t"],
    [hex |-> <<"#", "B", "0", "C", "4", "D", "E">>, en |-> "LightSteelBlue", vi |-> "Xanh th\\u00e9p nh\\u1ea1t"],
    [hex |-> <<"#", "F", "F", "F", "F", "E", "0">>, en |-> "LightYellow", vi |-> "V\\u00e0ng nh\\u1ea1t"],
    [hex |-> <<"#", "0", "0", "F", "F", "0", "0">>, en |-> "Lime", vi |-> "Xanh chanh"],
    [hex |-> <<"#", "3", "2", "C", "D", "3", "2">>, en |-> "LimeGreen", vi |-> "Xanh l\\u00e1 chanh"],
    [hex |-> <<"#", "F", "A", "F", "0", "E", "6">>, en |-> "Linen", vi |-> "Kem"],
    [hex |-> <<"#", "F", "F", "0", "0", "F", "F">>, en |-> "Magenta", vi |-> "H\\u1ed3ng t\\u01b0\\u01a1i"],
    [hex |-> <<"#", "8", "0", "0", "0", "0", "0">>, en |-> "Maroon", vi |-> "\\u0110\\u1ecf h\\u1ea1t d\\u1ebb"],
    [hex |-> <<"#", "6", "6", "C", "D", "A", "A">>, en |-> "MediumAquaMarine", vi |-> "Xanh ng\\u1ecdc v\\u1eeba"],
    [hex |-> <<"#", "0", "0", "0", "0", "C", "D">>, en |-> "MediumBlue", vi |-> "Xanh d\\u01b0\\u01a1ng"],
    [hex |-> <<"#", "B", "A", "5", "5", "D", "3">>, en |-> "MediumOrchid", vi |-> "T\\u00edm hoa lan v\\u1eeba"],
    [hex |-> <<"#", "9", "3", "7", "0", "D", "B">>, en |-> "MediumPurple", vi |-> "T\\u00edm nh\\u1ea1t"],
    [hex |-> <<"#", "3", "C", "B", "3", "7", "1">>, en |-> "MediumSeaGreen", vi |-> "Xanh ng\\u1ecdc"],
    [hex |-> <<"#", "7", "B", "6", "8", "E", "E">>, en |-> "MediumSlateBlue", vi |-> "Xanh \\u0111en v\\u1eeba"],
    [hex |-> <<"#", "0", "0", "F", "A", "9", "A">>, en |-> "MediumSpringGreen", vi |-> "Xanh l\\u1ee5c s\\u00e1ng v\\u1eeba"],
    [hex |-> <<"#", "4", "8", "D", "1", "C", "C">>, en |-> "MediumTurquoise", vi |-> "Xanh ng\\u1ecdc v\\u1eeba"],
    [hex |-> <<"#", "C", "7", "1", "5", "8", "5">>, en |-> "MediumVioletRed", vi |-> "H\\u1ed3ng t\\u00edm trung b\\u00ecnh"],
    [hex |-> <<"#", "1", "9", "1", "9", "7", "0">>, en |-> "MidnightBlue", vi |-> "Xanh \\u0111en"],
    [hex |-> <<"#", "F", "5", "F", "F", "F", "A">>, en |-> "MintCream", vi |-> "Tr\\u1eafng mint"],
    [hex |-> <<"#", "F", "F", "E", "4", "E", "1">>, en |-> "MistyRose", vi |-> "H\\u1ed3ng ph\\u1ea5n nh\\u1ea1t"],
    [hex |-> <<"#", "F", "F", "E", "4", "B", "5">>, en |-> "Moccasin", vi |-> "V\\u00e0ng kem"],
    [hex |-> <<"#", "F", "F", "D", "E", "A", "D">>, en |-> "NavajoWhite", vi |-> "Da"],
    [hex |-> <<"#", "0", "0", "0", "0", "8", "0">>, en |-> "Navy", vi |-> "Xanh d\\u01b0\\u01a1ng \\u0111\\u1eadm"],
    [hex |-> <<"#", "F", "D", "F", "5", "E", "6">>, en |-> "OldLace", vi |-> "Kem c\\u1ed5"],
    [hex |-> <<"#", "8", "0", "8", "0", "0", "0">>, en |-> "Olive", vi |-> "Xanh \\u00f4 liu"],
    [hex |-> <<"#", "6", "B", "8", "E", "2", "3">>, en |-> "OliveDrab", vi |-> "Xanh \\u00f4 liu s\\u1eabm"],
    [hex |-> <<"#", "F", "F", "A", "5", "0", "0">>, en |-> "Orange", vi |-> "Cam"],
    [hex |-> <<"#", "F", "F", "4", "5", "0", "0">>, en |-> "OrangeRed", vi |-> "Cam \\u0111\\u1ecf"],
    [hex |-> <<"#", "D", "A", "7", "0", "D", "6">>, en |-> "Orchid", vi |-> "T\\u00edm lan"],
    [hex |-> <<"#", "E", "E", "E", "8", "A", "A">>, en |-> "PaleGoldenrod", vi |-> "V\\u00e0ng hoe nh\\u1ea1t"],
    [hex |-> <<"#", "9", "8", "F", "B", "9", "8">>, en |-> "PaleGreen", vi |-> "Xanh l\\u1ee5c nh\\u1ea1t"],
    [hex |-> <<"#", "A", "F", "E", "E", "E", "E">>, en |-> "PaleTurquoise", vi |-> "Xanh ng\\u1ecdc nh\\u1ea1t"],
    [hex |-> <<"#", "D", "B", "7", "0", "9", "3">>, en |-> "PaleVioletRed", vi |-> "H\\u1ed3ng t\\u00edm nh\\u1ea1t"],
    [hex |-> <<"#", "F", "F", "E", "F", "D", "5">>, en |-> "PapayaWhip", vi |-> "V\\u00e0ng da cam nh\\u1ea1t"],
    [hex |-> <<"#", "F", "F", "D", "A", "B", "9">>, en |-> "PeachPuff", vi |-> "H\\u1ed3ng \\u0111\\u00e0o nh\\u1ea1t"],
    [hex |-> <<"#", "C", "D", "8", "5", "3", "F">>, en |-> "Peru", vi |-> "N\\u00e2u \\u0111\\u1ecf"],
    [hex |-> <<"#", "F", "F", "C", "0", "C", "B">>, en |-> "Pink", vi |-> "H\\u1ed3ng"],
    [hex |-> <<"#", "D", "D", "A", "0", "D", "D">>, en |-> "Plum", vi |-> "M\\u1eadn"],
    [hex |-> <<"#", "B", "0", "E", "0", "E", "6">>, en |-> "PowderBlue", vi |-> "Xanh nh\\u1ea1t"],
    [hex |-> <<"#", "8", "0", "0", "0", "8", "0">>, en |-> "Purple", vi |-> "T\\u00edm"],
    [hex |-> <<"#", "6", "6", "3", "3", "9", "9">>, en |-> "RebeccaPurple", vi |-> "T\\u00edm Rebecca"],
    [hex |-> <<"#", "F", "F", "0", "0", "0", "0">>, en |-> "Red", vi |-> "\\u0110\\u1ecf"],
    [hex |-> <<"#", "B", "C", "8", "F", "8", "F">>, en |-> "RosyBrown", vi |-> "N\\u00e2u h\\u1ed3ng"],
    [hex |-> <<"#", "4", "1", "6", "9", "E", "1">>, en |-> "RoyalBlue", vi |-> "Xanh ch\\u00e0m"],
    [hex |-> <<"#", "8", "B", "4", "5", "1", "3">>, en |-> "SaddleBrown", vi |-> "N\\u00e2u y\\u00ean ng\\u1ef1a"],
    [hex |-> <<"#", "F", "A", "8", "0", "7", "2">>, en |-> "Salmon", vi |-> "Cam"],
    [hex |-> <<"#", "F", "4", "A", "4", "6", "0">>, en |-> "SandyBrown", vi |-> "N\\u00e2u c\\u00e1t"],
    [hex |-> <<"#", "2", "E", "8", "B", "5", "7">>, en |-> "SeaGreen", vi |-> "Xanh ng\\u1ecdc"],
    [hex |-> <<"#", "F", "F", "F", "5", "E", "E">>, en |-> "SeaShell", vi |-> "Tr\\u1eafng ng\\u1ecdc trai"],
    [hex |-> <<"#", "A", "0", "5", "2", "2", "D">>, en |-> "Sienna", vi |-> "N\\u00e2u \\u0111\\u1ecf"],
    [hex |-> <<"#", "C", "0", "C", "0", "C", "0">>, en |-> "Silver", vi |-> "B\\u1ea1c"],
    [hex |-> <<"#", "8", "7", "C", "E", "E", "B">>, en |-> "SkyBlue", vi |-> "Xanh da tr\\u1eddi"],
    [hex |-> <<"#", "6", "A", "5", "A", "C", "D">>, en |-> "SlateBlue", vi |-> "Xanh \\u0111en"],
    [hex |-> <<"#", "7", "0", "8", "0", "9", "0">>, en |-> "SlateGray", vi |-> "X\\u00e1m xanh"],
    [hex |-> <<"#", "7", "0", "8", "0", "9", "0">>, en |-> "SlateGrey", vi |-> "X\\u00e1m xanh"],
    [hex |-> <<"#", "F", "F", "F", "A", "F", "A">>, en |-> "Snow", vi |-> "Tr\\u1eafng tuy\\u1ebft"],
    [hex |-> <<"#", "0", "0", "F", "F", "7", "F">>, en |-> "SpringGreen", vi |-> "Xanh l\\u1ee5c s\\u00e1ng"],
    [hex |-> <<"#", "4", "6", "8", "2", "B", "4">>, en |-> "SteelBlue", vi |-> "Xanh th\\u00e9p"],
    [hex |-> <<"#", "D", "2", "B", "4", "8", "C">>, en |-> "Tan", vi |-> "V\\u00e0ng b\\u00f2"],
    [hex |-> <<"#", "0", "0", "8", "0", "8", "0">>, en |-> "Teal", vi |-> "Xanh l\\u01a1 \\u0111\\u1eadm"],
    [hex |-> <<"#", "D", "8", "B", "F", "D", "8">>, en |-> "Thistle", vi |-> "T\\u00edm th\\u1ea1ch th\\u1ea3o"],
    [hex |-> <<"#", "F", "F", "6", "3", "4", "7">>, en |-> "Tomato", vi |-> "\\u0110\\u1ecf c\\u00e0 chua"],
    [hex |-> <<"#", "4", "0", "E", "0", "D", "0">>, en |-> "Turquoise", vi |-> "Xanh ng\\u1ecdc"],
    [hex |-> <<"#", "E", "E", "8", "2", "E", "E">>, en |-> "Violet", vi |-> "T\\u00edm"],
    [hex |-> <<"#", "F", "5", "D", "E", "B", "3">>, en |-> "Wheat", vi |-> "V\\u00e0ng l\\u00faa"],
    [hex |-> <<"#", "F", "F", "F", "F", "F", "F">>, en |-> "White", vi |-> "Tr\\u1eafng"],
    [hex |-> <<"#", "F", "5", "F", "5", "F", "5">>, en |-> "WhiteSmoke", vi |-> "Tr\\u1eafng kh\\u00f3i"],
    [hex |-> <<"#", "F", "F", "F", "F", "0", "0">>, en |-> "Yellow", vi |-> "V\\u00e0ng"],
    [hex |-> <<"#", "9", "A", "C", "D", "3", "2">>, en |-> "YellowGreen", vi |-> "V\\u00e0ng l\\u1ee5c"]
>>

\* "let minDistance = Infinity": above every distance of two colours
Infinity == 3 * 255 * 255 + 1

\* mutant: a rejected string is white
NoMatchWhite == [r |-> 255, g |-> 255, b |-> 255]

\* the colour hexToRgb of library.ts gives for a string its pattern rejects
NoMatchRgb == [r |-> 0, g |-> 0, b |-> 0]

\* /^#?([a-f\d]{2})([a-f\d]{2})([a-f\d]{2})$/i: the digits matched, <<>> if
\* the string does not match
HexMatch(hex) ==
    LET bare == IF Len(hex) > 0 /\ hex[1] = "#" THEN Tail(hex) ELSE hex
    IN  IF Len(bare) = 6 /\ \A i \in 1 .. 6 : DigitValue(bare[i]) >= 0
        THEN bare
        ELSE <<>>

\* hexToRgb of library.ts
hexToRgbStrict(hex) ==
    LET result == HexMatch(hex)
    IN  IF Len(result) = 6
        THEN [r |-> ParseInt16(SubSeq(result, 1, 2)),
              g |-> ParseInt16(SubSeq(result, 3, 4)),
              b |-> ParseInt16(SubSeq(result, 5, 6))]
        ELSE NoMatchRgb

\* colorDistance without its square root: Math.sqrt is increasing and
\* gives different doubles for different integers up to 3 * 255 * 255, so
\* the comparisons of the distances are those of their squares
colorDistance(rgb1, rgb2) ==
    (rgb1.r - rgb2.r) * (rgb1.r - rgb2.r)
    + (rgb1.g - rgb2.g) * (rgb1.g - rgb2.g)
    + (rgb1.b - rgb2.b) * (rgb1.b - rgb2.b)

\* mutant: an entry as near as the nearest so far replaces it
CloserOrEqual(distance, minDistance) == distance <= minDistance

\* "if (distance < minDistance)"
Closer(distance, minDistance) == distance < minDistance

\* "const colorRgb = hexToRgb(color.hex)" for every entry of the table
colorRgbs == [i \in 1 .. Len(colorList) |-> hexToRgbStrict(colorList[i].hex)]

\* one pass of the loop of findNearestColorName, for the entry at place i
NearestVisit(st, targetRgb, i) ==
    LET distance == colorDistance(targetRgb, colorRgbs[i])
    IN  IF Closer(distance, st.minDistance)
        THEN [minDistance |-> distance, nearestColor |-> i]
        ELSE st

\* the passes for the entries at the places lo .. hi, in this order
RECURSIVE NearestLoop(_, _, _, _)
NearestLoop(st, targetRgb, lo, hi) ==
    IF lo > hi THEN st
    ELSE IF lo = hi THEN NearestVisit(st, targetRgb, lo)
    ELSE LET mid == (lo + hi) \div 2
             first == NearestLoop(st, targetRgb, lo, mid)
         IN  IF first.nearestColor > 0
             THEN NearestLoop(first, targetRgb, mid + 1, hi)
             ELSE first

\* findNearestColorName(hexColor, language)
findNearestColorName(hexColor, language) ==
    LET targetRgb == hexToRgbStrict(hexColor)
        st == NearestLoop([minDistance |-> Infinity, nearestColor |-> 1],
                          targetRgb, 1, Len(colorList))
        nearestColor == colorList[st.nearestColor]
    IN  IF language = "vi" THEN nearestColor.vi ELSE nearestColor.en

(***************************************************************************)
(* SpecNamer: findNearestColorName applied to sampled strings; a behaviour  *)
(* is one call.                                                            *)
(***************************************************************************)
\* the channels of the sampled colours: every NamerStep-th value and the
\* two lowest and highest
NamerChannels == {c \in 0 .. 255 : c % NamerStep = 0 \/ c <= 1 \/ c >= 254}

\* the two hexadecimal digits of a channel
TwoDigits(n, digits) == <<digits[(n \div 16) + 1], digits[(n % 16) + 1]>>

\* the strings the pattern accepts, for the sampled colours
WellFormedHex ==
    {prefix \o TwoDigits(r, digits) \o TwoDigits(g, digits) \o TwoDigits(b, digits) :
        prefix \in {<<>>, <<"#">>}, digits \in {HexLower, HexUpper},
        r \in NamerChannels, g \in NamerChannels, b \in NamerChannels}

\* strings the pattern rejects
MalformedHex ==
    {<<>>, <<"#">>, <<"#", "F", "0", "0">>, <<"F", "0", "0">>,
     <<"#", "F", "F", "0", "0", "F">>, <<"#", "F", "F", "0", "0", "0", "0", "0">>,
     <<"#", "#", "F", "F", "0", "0", "0", "0">>, <<"F", "F", "0", "0", "0", "0", "#">>,
     <<"#", "G", "G", "G", "G", "G", "G">>, <<"#", "F", "F", " ", "0", "0", "0">>,
     <<"#", "F", "F", "F", "F", "F", "g">>, <<" ", "F", "F", "F", "F", "F", "F">>,
     <<"#", "F", "F", "F", "F", "F", "F", "\n">>, <<"w", "h", "i", "t", "e">>}

NamerInputs == {[tag |-> "name", hexColor |-> hex, language |-> language] :
                   hex \in WellFormedHex \cup MalformedHex, language \in {"en", "vi"}}

NamerInit ==
    /\ CacheInit
    /\ LibraryIdle
    /\ sData \in NamerInputs
    /\ sCall = [op |-> "none", x |-> 0, y |-> 0, radius |-> 0]
    /\ sResult = Null

\* findNearestColorName(hexColor, language)
LookUp ==
    /\ sCall.op = "none"
    /\ sCall' = [op |-> "findNearestColorName", hexColor |-> sData.hexColor,
                 language |-> sData.language]
    /\ sResult' = findNearestColorName(sData.hexColor, sData.language)
    /\ UNCHANGED <<sData, cacheVars, libraryVars>>

NextNamer == LookUp

SpecNamer == NamerInit /\ [][NextNamer]_vars

(***************************************************************************)
(* The fallback extractor of src/app/utils/libraryStorage.ts                *)
(* (ColorExtractor), as a function of what the image manipulation gives:   *)
(* the decoded bytes of the scaled crop, a result without base64, or a     *)
(* rejection.                                                              *)
(***************************************************************************)
\* "const maxColors = 100" of extractColorsFromBase64
maxValidColors == 100

\* Math.abs
Abs(x) == IF x < 0 THEN 0 - x ELSE x

\* isValidRGBColor(r, g, b) for bytes r, g, b
isValidRGBColor(r, g, b) ==
    IF r = 0 /\ g = 0 /\ b = 0 THEN FALSE
    ELSE IF r = 255 /\ g = 255 /\ b = 255 THEN FALSE
    ELSE IF r = g /\ g = b /\ (r = 0 \/ r = 255) THEN FALSE
    ELSE IF r >= 32 /\ r <= 126 /\ g >= 32 /\ g <= 126 /\ b >= 32 /\ b <= 126
    THEN Abs(r - g) + Abs(g - b) + Abs(r - b) > 30
    ELSE TRUE

\* one pass of the loop of extractColorsFromBase64, for the index i
TripletVisit(colors, bytes, i) ==
    IF Len(colors) < maxValidColors
       /\ isValidRGBColor(ByteAt(bytes, i), ByteAt(bytes, i + 1), ByteAt(bytes, i + 2))
    THEN Append(colors, [r |-> ByteAt(bytes, i), g |-> ByteAt(bytes, i + 1),
                         b |-> ByteAt(bytes, i + 2)])
    ELSE colors

\* the passes for the indices lo .. hi, in this order; a pass after
\* validColorCount has reached the limit adds nothing, as the loop has ended
RECURSIVE TripletLoop(_, _, _, _)
TripletLoop(colors, bytes, lo, hi) ==
    IF lo > hi THEN colors
    ELSE IF lo = hi THEN TripletVisit(colors, bytes, lo)
    ELSE LET mid == (lo + hi) \div 2
             first == TripletLoop(colors, bytes, lo, mid)
         IN  IF Len(first) >= 0
             THEN TripletLoop(first, bytes, mid + 1, hi)
             ELSE first

\* extractColorsFromBase64, for the bytes atob gives
extractColorsFromBase64(bytes) == TripletLoop(<< >>, bytes, 0, Len(bytes) - 3)

\* the sum of the channel ch of colors[lo .. hi]
RECURSIVE ChannelSum(_, _, _, _)
ChannelSum(colors, ch, lo, hi) ==
    IF lo > hi THEN 0
    ELSE IF lo = hi THEN colors[lo][ch]
    ELSE LET mid == (lo + hi) \div 2
             first == ChannelSum(colors, ch, lo, mid)
         IN  IF first >= 0
             THEN first + ChannelSum(colors, ch, mid + 1, hi)
             ELSE first

\* calculateAverageColor(colors)
calculateAverageColor(colors) ==
    IF Len(colors) = 0 THEN [r |-> 128, g |-> 128, b |-> 128]
    ELSE [r |-> MathRoundDiv(ChannelSum(colors, "r", 1, Len(colors)), Len(colors)),
          g |-> MathRoundDiv(ChannelSum(colors, "g", 1, Len(colors)), Len(colors)),
          b |-> MathRoundDiv(ChannelSum(colors, "b", 1, Len(colors)), Len(colors))]

\* extractColorAtCoordinates after its awaits: scaled is what the two calls
\* of manipulateAsync gave
extractColorAtCoordinates(scaled) ==
    IF scaled.tag # "bytes" THEN Null
    ELSE LET colors == extractColorsFromBase64(scaled.bytes)
         IN  IF Len(colors) > 0 THEN calculateAverageColor(colors) ELSE Null

\* ColorExtractor.getColorAtPixel: sized is false for an empty URI or a
\* zero width or height
fallbackGetColorAtPixel(scaled, sized) ==
    IF ~sized THEN Null
    ELSE LET color == extractColorAtCoordinates(scaled)
         IN  IF color # Null
             THEN [r |-> color.r, g |-> color.g, b |-> color.b, a |-> 255]
             ELSE Null

(***************************************************************************)
(* SpecFallback: the fallback extractor applied to sampled byte streams; a  *)
(* behaviour is one call.                                                  *)
(***************************************************************************)
\* the bytes of the short streams: the two extremes, three ASCII codes and
\* one byte above them
StreamBytes == {0, 255, 65, 70, 100, 200}

RECURSIVE StreamsOfLength(_)
StreamsOfLength(n) ==
    IF n = 0 THEN {<< >>}
    ELSE {Append(s, byte) : s \in StreamsOfLength(n - 1), byte \in StreamBytes}

\* a stream of n bytes nearly all of whose triplets are accepted
LongStream(n, slope) == [i \in 1 .. n |-> (slope * i) % 256]

Streams ==
    UNION {StreamsOfLength(n) : n \in 0 .. MaxStream}
        \cup {LongStream(n, slope) : n \in (MaxLong - 20) .. MaxLong, slope \in {5, 37}}

FallbackInputs ==
    {[tag |-> "bytes", bytes |-> bytes, sized |-> sized] :
        bytes \in Streams, sized \in BOOLEAN}
        \cup {[tag |-> tag, bytes |-> << >>, sized |-> sized] :
                 tag \in {"nobase64", "rejected"}, sized \in BOOLEAN}

FallbackInit ==
    /\ CacheInit
    /\ LibraryIdle
    /\ sData \in FallbackInputs
    /\ sCall = [op |-> "none", x |-> 0, y |-> 0, radius |-> 0]
    /\ sResult = Null

\* ColorExtractor.extractColorAtCoordinates(imageUri, x, y, width, height)
ExtractAtCoordinates ==
    /\ sCall.op = "none"
    /\ sCall' = [op |-> "extractColorAtCoordinates"]
    /\ sResult' = extractColorAtCoordinates(sData)
    /\ UNCHANGED <<sData, cacheVars, libraryVars>>

\* ColorExtractor.getColorAtPixel(imageUri, x, y, imageDimensions)
FallbackGetColor ==
    /\ sCall.op = "none"
    /\ sCall' = [op |-> "getColorAtPixel"]
    /\ sResult' = fallbackGetColorAtPixel(sData, sData.sized)
    /\ UNCHANGED <<sData, cacheVars, libraryVars>>

NextFallback ==
    \/ ExtractAtCoordinates
    \/ FallbackGetColor

SpecFallback == FallbackInit /\ [][NextFallback]_vars

(***************************************************************************)
(* LibraryStorage (src/app/utils/libraryStorage.ts): the saved library,    *)
(* read from and written back to AsyncStorage by every operation           *)
(***************************************************************************)
\* Of a package the model keeps id, isDefault (FALSE where the field is
\* missing), colors and palettes; of a colour id and color; of a palette id.

\* ids of packages: "default" and `pkg_${Date.now()}`
DefaultId == <<"default", 0>>

PkgId(now) == <<"pkg_", now>>

\* an id no package has
UnknownId == <<"missing", 0>>

defaultPackage ==
    [id |-> DefaultId, isDefault |-> TRUE, colors |-> << >>, palettes |-> << >>]

defaultData == [packages |-> <<defaultPackage>>, defaultPackageId |-> DefaultId]

\* JSON.stringify(data) and JSON.parse(item): the item holds a copy of the data
Stringify(data) == [tag |-> "json", value |-> data]

Parse(item) == item.value

\* what an operation's body comes to: the data it passes to saveLibraryData,
\* or the Error it throws
Ok(data) == [tag |-> "ok", data |-> data]

Threw(message) == [tag |-> "Error", message |-> message]

\* a || b on ids
OrElse(a, b) == IF a # Undefined THEN a ELSE b

\* seq.findIndex(Test), counted from 1; 0 for -1
FindIndex(seq, Test(_)) ==
    LET hits == {i \in 1 .. Len(seq) : Test(seq[i])}
    IN  IF hits = {} THEN 0 ELSE CHOOSE i \in hits : \A j \in hits : i <= j

PackageIndex(data, packageId) ==
    FindIndex(data.packages, LAMBDA pkg : pkg.id = packageId)

\* packageToDelete?.isDefault, without the test
NeverDefault(data, packageId) == FALSE

\* packageToDelete?.isDefault
IsDefault(data, packageId) ==
    LET index == PackageIndex(data, packageId)
    IN  index # 0 /\ data.packages[index].isDefault

createPackage(data, now) ==
    Ok([data EXCEPT !.packages =
            Append(@, [id |-> PkgId(now), isDefault |-> FALSE,
                       colors |-> << >>, palettes |-> << >>])])

deletePackage(data, packageId) ==
    IF IsDefault(data, packageId)
    THEN Threw("Cannot delete default package")
    ELSE LET packages == SelectSeq(data.packages, LAMBDA pkg : pkg.id # packageId)
         IN  Ok([packages |-> packages,
                 defaultPackageId |->
                     IF data.defaultPackageId = packageId /\ Len(packages) > 0
                     THEN packages[1].id
                     ELSE data.defaultPackageId])

\* packageId || data.defaultPackageId || data.packages[0]?.id
TargetPackageId(data, packageId) ==
    OrElse(OrElse(packageId, data.defaultPackageId),
           IF Len(data.packages) > 0 THEN data.packages[1].id ELSE Undefined)

\* the replace-or-push of saveColor and savePalette on one list
Put(list, item, Same(_)) ==
    LET existing == FindIndex(list, Same)
    IN  IF existing # 0 THEN [list EXCEPT ![existing] = item] ELSE Append(list, item)

saveColor(data, color, packageId) ==
    LET targetPackageId == TargetPackageId(data, packageId)
        packageIndex == PackageIndex(data, targetPackageId)
    IN  IF targetPackageId = Undefined
        THEN Threw("No package available to save color")
        ELSE IF packageIndex = 0
        THEN Threw("Package not found")
        ELSE Ok([data EXCEPT !.packages[packageIndex].colors =
                     Put(@, color, LAMBDA c : c.color = color.color)])

savePalette(data, palette, packageId) ==
    LET targetPackageId == TargetPackageId(data, packageId)
        packageIndex == PackageIndex(data, targetPackageId)
    IN  IF targetPackageId = Undefined
        THEN Threw("No package available to save palette")
        ELSE IF packageIndex = 0
        THEN Threw("Package not found")
        ELSE Ok([data EXCEPT !.packages[packageIndex].palettes =
                     Put(@, palette, LAMBDA q : q.id = palette.id)])

deleteColor(data, colorId, packageId) ==
    LET packageIndex == PackageIndex(data, packageId)
    IN  IF packageIndex = 0
        THEN Threw("Package not found")
        ELSE Ok([data EXCEPT !.packages[packageIndex].colors =
                     SelectSeq(@, LAMBDA c : c.id # colorId)])

setDefaultPackage(data, packageId) ==
    IF PackageIndex(data, packageId) = 0
    THEN Threw("Package not found")
    ELSE Ok([data EXCEPT !.defaultPackageId = packageId])

\* the body of an operation after its "await this.getLibraryData()", up to its
\* "await this.saveLibraryData(data)"
Body(c, data, now) ==
    CASE c.op = "createPackage" -> createPackage(data, now)
      [] c.op = "deletePackage" -> deletePackage(data, c.packageId)
      [] c.op = "saveColor" ->
             saveColor(data, [id |-> c.id, color |-> c.color], c.packageId)
      [] c.op = "savePalette" -> savePalette(data, [id |-> c.id], c.packageId)
      [] c.op = "deleteColor" -> deleteColor(data, c.id, c.packageId)
      [] c.op = "setDefaultPackage" -> setDefaultPackage(data, c.packageId)

\* the caller after getLibraryData has returned data: it has thrown, or it
\* waits for the setItem of saveLibraryData
AfterGet(caller, data, now) ==
    LET result == Body(caller.call, data, now)
    IN  IF result.tag = "Error"
        THEN [caller EXCEPT !.pc = "threw", !.error = result.message, !.data = data]
        ELSE [caller EXCEPT !.pc = "set", !.data = result.data]

\* the values Date.now() may return to the call
Nows(c) == IF c.op = "createPackage" THEN clock .. MaxClock ELSE {clock}

SavedColors ==
    {[id |-> "c1", color |-> "#FF0000"], [id |-> "c2", color |-> "#00FF00"],
     [id |-> "c3", color |-> "#FF0000"]}

PaletteIds == {"p1", "p2"}

PackageIds == {DefaultId, UnknownId} \cup {PkgId(now) : now \in 1 .. MaxClock}

SaveColorCalls(colors) ==
    {[op |-> "saveColor", id |-> c.id, color |-> c.color, packageId |-> packageId] :
        c \in colors, packageId \in PackageIds \cup {Undefined}}

SavePaletteCalls ==
    {[op |-> "savePalette", id |-> id, color |-> "", packageId |-> packageId] :
        id \in PaletteIds, packageId \in PackageIds \cup {Undefined}}

\* the calls of the behaviours in which operations do not overlap
LibraryCalls ==
    {[op |-> "createPackage", id |-> "", color |-> "", packageId |-> Undefined]}
        \cup {[op |-> op, id |-> "", color |-> "", packageId |-> packageId] :
                 op \in {"deletePackage", "setDefaultPackage"}, packageId \in PackageIds}
        \cup SaveColorCalls(SavedColors)
        \cup {[op |-> "deleteColor", id |-> c.id, color |-> "", packageId |-> packageId] :
                 c \in SavedColors, packageId \in PackageIds}

\* the calls of the behaviours in which operations overlap: saves of
\* different colours and palettes
OverlappingCalls ==
    SaveColorCalls({c \in SavedColors : c.id # "c3"}) \cup SavePaletteCalls

\* a public operation is called: it calls getLibraryData, which calls
\* AsyncStorage.getItem
Begin(p, c, most) ==
    /\ lib[p].pc \in {"idle", "done", "threw"}
    /\ lib[p].made < most
    /\ lib' = [lib EXCEPT ![p] = [pc |-> "get", call |-> c, data |-> Null, error |-> "",
                                  before |-> storage, made |-> lib[p].made + 1]]
    /\ UNCHANGED <<storage, clock, cacheVars, samplerVars>>

\* AsyncStorage.getItem reads the item: with an item, getLibraryData returns
\* its parse and the operation runs up to its setItem; without one,
\* getLibraryData calls saveLibraryData(defaultData)
GetItem(p) ==
    /\ lib[p].pc = "get"
    /\ IF storage = Null
       THEN /\ lib' = [lib EXCEPT ![p].pc = "seed", ![p].data = defaultData]
            /\ UNCHANGED clock
       ELSE \E now \in Nows(lib[p].call) :
                /\ lib' = [lib EXCEPT ![p] = AfterGet(lib[p], Parse(storage), now)]
                /\ clock' = now
    /\ UNCHANGED <<storage, cacheVars, samplerVars>>

\* the setItem of the default data is done: getLibraryData returns defaultData
\* and the operation runs up to its own setItem
SeedItem(p) ==
    /\ lib[p].pc = "seed"
    /\ storage' = Stringify(lib[p].data)
    /\ \E now \in Nows(lib[p].call) :
           /\ lib' = [lib EXCEPT ![p] = AfterGet(lib[p], lib[p].data, now)]
           /\ clock' = now
    /\ UNCHANGED <<cacheVars, samplerVars>>

\* the setItem of saveLibraryData is done and the operation returns
SetItem(p) ==
    /\ lib[p].pc = "set"
    /\ storage' = Stringify(lib[p].data)
    /\ lib' = [lib EXCEPT ![p].pc = "done"]
    /\ UNCHANGED <<clock, cacheVars, samplerVars>>

\* one caller, whose operations therefore never overlap
NextLibrary ==
    \/ \E c \in LibraryCalls : Begin(1, c, MaxLibraryCalls)
    \/ GetItem(1)
    \/ SeedItem(1)
    \/ SetItem(1)

SpecLibrary == Init /\ [][NextLibrary]_vars

\* the store the overlapping saves start from: no item, the default library,
\* or the default library and one more package
OverlapInit ==
    /\ CacheInit
    /\ SamplerIdle
    /\ lib = [p \in Procs |-> [pc |-> "idle", call |-> NoLibraryCall, data |-> Null,
                               error |-> "", before |-> Null, made |-> 0]]
    /\ clock = 1
    /\ \/ storage = Null
       \/ storage = Stringify(defaultData)
       \/ storage = Stringify(createPackage(defaultData, 1).data)

NextOverlap ==
    \/ \E p \in Procs, c \in OverlappingCalls : Begin(p, c, MaxOverlapCalls)
    \/ \E p \in Procs : GetItem(p)
    \/ \E p \in Procs : SeedItem(p)
    \/ \E p \in Procs : SetItem(p)

SpecOverlap == OverlapInit /\ [][NextOverlap]_vars

(***************************************************************************)
(* Observations used by the claims                                         *)
(***************************************************************************)
\* getCacheStats()
getCacheStats ==
    [imageCacheSize |-> MapSize(imageCache),
     pixelCacheSize |-> Cardinality(pixelCache),
     maxCacheSize |-> MAX_CACHE_SIZE]

\* no operation is in flight
Quiet == \A p \in Procs : pc[p] \in {"idle", "done"}

\* the last n of the URIs 1..k, in order
LastOf(k, n) == [i \in 1 .. Min(k, n) |-> k - Min(k, n) + i]

\* caller p's step is a cache miss of loadSkiaImage: it reaches the file read
MissStep(p) == pc[p] # "read" /\ pc'[p] = "read"

\* caller p's call finds its URI in the image cache
HitStep(p) == pc[p] = "idle" /\ pc'[p] \in {"loaded", "done"}

FailingUris == {UnreadableUri, UndecodableUri, NoPixelsUri}

(***************************************************************************)
(* Claims about the caches, operations run one after another (Spec)        *)
(***************************************************************************)
\* C1 (scenario): after the successful loads of u1, ..., uk in that order
\* (k up to NumUris) from the empty cache, the image cache holds exactly the
\* last ten of them, oldest first: after 11 loads u1 is absent, u2..u11 present.
C1_AfterLoadsInOrder ==
    (scn.on /\ ~scn.hit2 /\ Quiet) =>
        MapKeys(imageCache) = LastOf(scn.loads, MAX_CACHE_SIZE)

\* C1 (step): a miss that finds MAX_CACHE_SIZE entries removes exactly the
\* entry inserted earliest among those present, from both caches, and a miss
\* that finds fewer removes nothing.
C1_MissEvictsOldest ==
    \A p \in Procs :
        MissStep(p) =>
            IF MapSize(imageCache) >= MAX_CACHE_SIZE
            THEN /\ MapKeys(imageCache') = Tail(insertionOrder)
                 /\ PixelKeys(pixelCache') = PixelKeys(pixelCache) \ {Head(insertionOrder)}
            ELSE imageCache' = imageCache /\ pixelCache' = pixelCache

\* C1: FIFO eviction: 11 loads of distinct URIs from the empty cache leave
\* u2..u11 cached and u1 absent, and every miss on a full cache evicts exactly
\* the entry that was inserted earliest.
C1_FifoEviction == []C1_AfterLoadsInOrder /\ [][C1_MissEvictsOldest]_vars

C1_Witness ==
    /\ scn.on /\ ~scn.hit2 /\ scn.loads = MAX_CACHE_SIZE + 1
    /\ pc[1] = "done"
    /\ ~MapHas(imageCache, 1)

\* C2 (scenario): with u1..u10 cached, a hit on u2 and then the loads of u11
\* and u12 leave the same caches as without the hit: u1 goes first, then u2.
C2_AfterHitOnU2 ==
    (scn.on /\ scn.hit2 /\ Quiet) =>
        MapKeys(imageCache) = LastOf(scn.loads, MAX_CACHE_SIZE)

\* C2 (step): a call that finds its URI cached resolves loadSkiaImage to the
\* cached image and changes neither the entries nor their order.
C2_HitLeavesCache ==
    \A p \in Procs :
        HitStep(p) =>
            /\ imageCache' = imageCache
            /\ insertionOrder' = insertionOrder
            /\ pc'[p] = "loaded" =>
                 /\ img'[p] = MapGet(imageCache, call'[p].uri)
                 /\ img'[p].src = call'[p].uri

\* C2: a cache hit does not refresh recency.
C2_HitKeepsOrder == []C2_AfterHitOnU2 /\ [][C2_HitLeavesCache]_vars

C2_Witness ==
    /\ scn.on /\ scn.hit2 /\ scn.loads = MAX_CACHE_SIZE + 2
    /\ pc[1] = "done"
    /\ ~MapHas(imageCache, 2)
    /\ MapHas(imageCache, MAX_CACHE_SIZE + 1)

\* C3: with operations run one after another, neither cache ever holds more
\* than MAX_CACHE_SIZE entries.
C3_CapacitySequential ==
    /\ getCacheStats.imageCacheSize <= getCacheStats.maxCacheSize
    /\ getCacheStats.pixelCacheSize <= getCacheStats.maxCacheSize

C3_Witness ==
    /\ getCacheStats.imageCacheSize = MAX_CACHE_SIZE
    /\ getCacheStats.pixelCacheSize = MAX_CACHE_SIZE
    /\ used > MAX_CACHE_SIZE
    /\ others > 0

\* C6 (state): right after clearCache both caches are empty.
C6_EmptyAfterClear ==
    cl.on => getCacheStats.imageCacheSize = 0 /\ getCacheStats.pixelCacheSize = 0

\* C6 (step): the next call after clearCache, whatever its URI, misses and
\* reads the file again.
C6_NextLoadMisses ==
    \A p \in Procs : (cl.on /\ pc[p] = "idle" /\ pc'[p] # "idle") => pc'[p] = "read"

\* C6: clearCache empties both caches and the next load of a URI cached
\* before is a miss that decodes again.
C6_ClearEmptiesCaches == []C6_EmptyAfterClear /\ [][C6_NextLoadMisses]_vars

C6_Witness ==
    /\ cl.on
    /\ pc[1] = "read"
    /\ call[1].uri \in cl.held
    /\ Cardinality(cl.held) > 1

\* C7 as stated: whenever the read, the decoder or readPixels fails, the
\* operation returns null and the URI is in neither cache.
C7_FailureIsNullAndUncached ==
    \A p \in Procs :
        (pc[p] = "done" /\ call[p].uri \in FailingUris) =>
            /\ ret[p] = Null
            /\ ~MapHas(imageCache, call[p].uri)
            /\ ~PixelHas(pixelCache, call[p].uri)

\* C7 amended: a failed read or decode makes every operation return null and
\* the URI is never in either cache; when only readPixels fails the pixel
\* operations return null and the URI is never in the pixel cache, while
\* getImageDimensions returns the dimensions of the (cached) image.
C7_FailureIsNull ==
    /\ \A p \in Procs :
         pc[p] = "done" =>
            /\ call[p].uri \in {UnreadableUri, UndecodableUri} => ret[p] = Null
            /\ call[p].uri = NoPixelsUri =>
                 IF call[p].op = "getImageDimensions"
                 THEN ret[p] = [tag |-> "dims", width |-> 1, height |-> 1]
                 ELSE ret[p] = Null
    /\ ~MapHas(imageCache, UnreadableUri)
    /\ ~MapHas(imageCache, UndecodableUri)
    /\ PixelKeys(pixelCache) \cap FailingUris = {}

C7_Witness ==
    /\ pc[1] = "done"
    /\ call[1].uri = UndecodableUri
    /\ call[1].op = "extractCenterColor"
    /\ ret[1] = Null
    /\ MapSize(imageCache) > 0

(***************************************************************************)
(* Claims about overlapping operations (SpecConc, SpecSame)                *)
(***************************************************************************)
\* C4: also when loads of distinct uncached URIs overlap, the image cache
\* never holds more than MAX_CACHE_SIZE entries.
C4_CapacityConcurrent == MapSize(imageCache) <= MAX_CACHE_SIZE

\* the URI the overlapping operations of SpecSame are about
SnapUri == (CHOOSE c \in snap.calls : TRUE)[2]

\* some operation of the episode reads pixels
SnapReadsPixels == \E c \in snap.calls : c[1] # "getImageDimensions"

\* the image cache keys after one load of uri alone, from the keys before
KeysAfterOneLoad(keys, uri) ==
    IF \E i \in 1 .. Len(keys) : keys[i] = uri THEN keys
    ELSE LET kept == IF Len(keys) >= MAX_CACHE_SIZE THEN Tail(keys) ELSE keys
         IN  IF uri \in {UnreadableUri, UndecodableUri} THEN kept ELSE Append(kept, uri)

\* the pixel cache keys after the operations run alone, one after another
PixelKeysAfterOneLoad(keys, pixelKeys, uri, readsPixels) ==
    LET hit == \E i \in 1 .. Len(keys) : keys[i] = uri
        kept == IF ~hit /\ Len(keys) >= MAX_CACHE_SIZE
                THEN pixelKeys \ {Head(keys)} ELSE pixelKeys
    IN  IF readsPixels /\ uri \in GoodUris THEN kept \cup {uri} ELSE kept

\* C5: overlapping loads of one URI are benign: once they have all resolved,
\* the caches hold what a single load of the URI (the operations run one
\* after another) leaves, with one entry for the URI, every entry holding the
\* image of its key, and the callers of a same operation got equal results.
C5_SameUriLoadsBenign ==
    (snap.on /\ Quiet) =>
        /\ MapKeys(imageCache) = KeysAfterOneLoad(MapKeys(snap.image), SnapUri)
        /\ PixelKeys(pixelCache) =
             PixelKeysAfterOneLoad(MapKeys(snap.image), PixelKeys(snap.pixel),
                                   SnapUri, SnapReadsPixels)
        /\ Cardinality({i \in 1 .. Len(imageCache) : imageCache[i].key = SnapUri}) <= 1
        /\ \A i \in 1 .. Len(imageCache) : imageCache[i].value = SkImage(imageCache[i].key)
        /\ \A e \in pixelCache : e.value = readPixels(SkImage(e.key))
        /\ \A p, q \in Procs :
             (pc[p] = "done" /\ pc[q] = "done" /\ call[p].op = call[q].op) =>
                 /\ ret[p] = ret[q]
                 /\ (img[p] # Null /\ img[q] # Null) => img[p] = img[q]

C5_Witness ==
    /\ snap.on /\ snap.raced
    /\ MapSize(snap.image) = MAX_CACHE_SIZE
    /\ pc[1] = "done" /\ pc[2] = "done"
    /\ call[1].op = call[2].op
    /\ SnapUri \in GoodUris
    /\ MapHas(imageCache, SnapUri)

(***************************************************************************)
(* Claims about the samplers (SpecSampler)                                 *)
(***************************************************************************)
InBounds(x, y) == 0 <= x /\ x < sData.width /\ 0 <= y /\ y < sData.height

\* the buffer has the length of its dimensions, width * height * 4
FullLength == Len(sData.pixels) = sData.width * sData.height * 4

\* the pixel at (x, y), as a colour
PixelOf(x, y) ==
    LET i == (y * sData.width + x) * 4
    IN  [tag |-> "color", r |-> sData.pixels[i + 1], g |-> sData.pixels[i + 2],
         b |-> sData.pixels[i + 3], a |-> sData.pixels[i + 4]]

\* C8: a request whose coordinate lies outside the buffer returns null from
\* getColorAtPixel and from extractRegionAverageColor.
C8_OutOfBoundsIsNull ==
    (sCall.op \in {"getColorAtPixel", "extractRegionAverageColor"}
        /\ ~InBounds(sCall.x, sCall.y)) => sResult = Null

\* C9: getColorAtPixel at an in-bounds (x, y) returns the four bytes at
\* (y * width + x) * 4, or null when they run past the end of the buffer;
\* on the uniform red 10 x 10 buffer it returns {255, 0, 0, 255}.
C9_PointColorExactRead ==
    (sCall.op = "getColorAtPixel" /\ InBounds(sCall.x, sCall.y)) =>
        /\ IF (sCall.y * sData.width + sCall.x) * 4 + 4 <= Len(sData.pixels)
           THEN sResult = PixelOf(sCall.x, sCall.y)
           ELSE sResult = Null
        /\ sData = Red10x10 => sResult = [tag |-> "color", r |-> 255, g |-> 0, b |-> 0, a |-> 255]

C9_Witness ==
    /\ sCall.op = "getColorAtPixel"
    /\ sCall.x = 1 /\ sCall.y = 2
    /\ sData.width = 3
    /\ FullLength
    /\ sResult # Null
    /\ sResult.r # sResult.g

\* the clipped square of the last region call
RegionCells ==
    {<<x, y>> : x \in Max(0, sCall.x - sCall.radius) .. Min(sData.width - 1, sCall.x + sCall.radius),
                y \in Max(0, sCall.y - sCall.radius) .. Min(sData.height - 1, sCall.y + sCall.radius)}

RECURSIVE SumOver(_, _)
SumOver(cells, ch) ==
    IF cells = {} THEN 0
    ELSE LET c == CHOOSE c \in cells : TRUE
         IN  PixelOf(c[1], c[2])[ch] + SumOver(cells \ {c}, ch)

\* q is sum / count rounded to the nearest integer, halves up
IsRounded(q, sum, count) == 2 * q * count <= 2 * sum + count /\ 2 * sum + count < 2 * (q + 1) * count

\* C10: for an in-bounds centre on a buffer of full length, the region
\* average is never null, each channel is round(sum / count) over exactly the
\* clipped square, lies between the least and the greatest value of the
\* channel there, and on a uniform buffer is the uniform colour.
C10_RegionAverageExact ==
    (sCall.op = "extractRegionAverageColor" /\ InBounds(sCall.x, sCall.y) /\ FullLength) =>
        /\ sResult # Null
        /\ \A ch \in {"r", "g", "b", "a"} :
             /\ IsRounded(sResult[ch], SumOver(RegionCells, ch), Cardinality(RegionCells))
             /\ \E c \in RegionCells : PixelOf(c[1], c[2])[ch] <= sResult[ch]
             /\ \E c \in RegionCells : PixelOf(c[1], c[2])[ch] >= sResult[ch]
             /\ (\A c \in RegionCells : PixelOf(c[1], c[2]) = PixelOf(0, 0)) =>
                    sResult = PixelOf(0, 0)

C10_Witness ==
    /\ sCall.op = "extractRegionAverageColor"
    /\ InBounds(sCall.x, sCall.y) /\ FullLength
    /\ sCall.radius = 1
    /\ Cardinality(RegionCells) = 6
    /\ sResult # Null
    /\ (2 * SumOver(RegionCells, "r")) % (2 * Cardinality(RegionCells)) >= Cardinality(RegionCells)

(***************************************************************************)
(* Claims about the clustering strategies (SpecCluster)                    *)
(***************************************************************************)
\* the pixel indices 0, step, 2 * step, ... of the buffer, step = max(1, rate)
VisitedPixels(rate) ==
    {i \in 0 .. (sData.width * sData.height - 1) : i % (IF rate >= 1 THEN rate ELSE 1) = 0}

\* RGBA of pixel i of the buffer
PixelAt(i) ==
    [r |-> sData.pixels[4 * i + 1], g |-> sData.pixels[4 * i + 2],
     b |-> sData.pixels[4 * i + 3], a |-> sData.pixels[4 * i + 4]]

\* the visited pixels that count: alpha at least 128
CountedPixels(rate) == {i \in VisitedPixels(rate) : PixelAt(i).a >= 128}

\* the 32-wide bucket of a colour
Bucket32(c) == <<c.r - (c.r % 32), c.g - (c.g % 32), c.b - (c.b % 32)>>

BucketCount(rate, bucket) ==
    Cardinality({i \in CountedPixels(rate) : Bucket32(PixelAt(i)) = bucket})

Buckets32(rate) == {Bucket32(PixelAt(i)) : i \in CountedPixels(rate)}

RgbOf(c) == <<c.r, c.g, c.b>>

\* C11: on a full-length buffer extractDominantColors(maxColors, sampleRate)
\* returns min(maxColors, number of buckets) pairwise-distinct bucket colours
\* of the counted pixels among indices 0, step, 2*step, ..., in non-increasing
\* order of their pixel counts, and no omitted bucket has more pixels than a
\* returned one; on the uniform red 10x10 buffer with maxColors = 1 the
\* result is one colour with r = 224, g = 0, b = 0.
C11_DominantBuckets ==
    (sCall.op = "extractDominantColors" /\ sData # Null /\ FullLength) =>
        LET rate == sCall.sampleRate
            n == Len(sResult.items)
        IN  /\ n = Min(sCall.maxColors, Cardinality(Buckets32(rate)))
            /\ \A j \in 1 .. n : RgbOf(sResult.items[j]) \in Buckets32(rate)
            /\ \A j, k \in 1 .. n : j # k => RgbOf(sResult.items[j]) # RgbOf(sResult.items[k])
            /\ \A j, k \in 1 .. n :
                   j < k => BucketCount(rate, RgbOf(sResult.items[j]))
                              >= BucketCount(rate, RgbOf(sResult.items[k]))
            /\ \A bucket \in Buckets32(rate) :
                   (\A j \in 1 .. n : RgbOf(sResult.items[j]) # bucket) =>
                       \A j \in 1 .. n :
                           BucketCount(rate, RgbOf(sResult.items[j])) >= BucketCount(rate, bucket)
            /\ (sData = Red10x10 /\ sCall.maxColors = 1) =>
                   /\ n = 1
                   /\ RgbOf(sResult.items[1]) = <<224, 0, 0>>

\* a strided call that skips a transparent pixel and a bucket between its
\* stops, finds two buckets, and returns only the one with more pixels,
\* which it met second
C11_Witness ==
    /\ sCall.op = "extractDominantColors"
    /\ sData # Null
    /\ FullLength
    /\ sCall.sampleRate = 2
    /\ sCall.maxColors = 1
    /\ PixelAt(0).a < 128
    /\ Cardinality(Buckets32(2)) = 2
    /\ Cardinality(Buckets32(1)) = 3
    /\ Len(sResult.items) = 1
    /\ RgbOf(sResult.items[1]) # Bucket32(PixelAt(2))
    /\ BucketCount(2, RgbOf(sResult.items[1])) > BucketCount(2, Bucket32(PixelAt(2)))

ClusterOps == {"extractDominantColors", "extractPerceptualColors", "extractAdaptiveColors"}

\* the entries behind the result of the clustering call, with the values
\* they were sorted by
RankedOfCall ==
    IF sCall.op = "extractDominantColors"
    THEN DominantRanked(sData, sCall.maxColors, sCall.sampleRate)
    ELSE IF sCall.op = "extractPerceptualColors"
    THEN PerceptualRanked(sData, sCall.maxColors)
    ELSE AdaptiveRanked(sData, sCall.maxColors, sCall.qualityLevel).entries

\* C12: every clustering strategy returns a list of at most the requested
\* number of colours (maxColors, or targetColors for extractAdaptiveColors),
\* in non-increasing order of the value it ranks by.
C12_AtMostRequested ==
    (sCall.op \in ClusterOps /\ sResult.tag = "list") =>
        /\ Len(sResult.items) <= sCall.maxColors
        /\ sData # Null =>
               \A j, k \in 1 .. Len(RankedOfCall) :
                   j < k => RankedOfCall[j].score >= RankedOfCall[k].score

\* the grid seeds of the adaptive call on the buffer
SeedsOfCall ==
    getInitialColorCenters(sData.pixels, sData.width, sData.height, sCall.maxColors)

\* C13: a clustering call never throws: it returns a list, the empty list
\* when the buffer could not be loaded or read, and for extractAdaptiveColors
\* also when no grid seed survives the alpha filter although counted pixels
\* exist.
C13_ClusteringNeverThrows ==
    sCall.op \in ClusterOps =>
        /\ sResult.tag = "list"
        /\ sData = Null => sResult.items = << >>
        /\ (sData # Null /\ sCall.op = "extractAdaptiveColors" /\ SeedsOfCall = << >>) =>
               sResult.items = << >>

\* an adaptive call with no seed whose refinement loop meets a counted pixel
C13_Witness ==
    /\ sCall.op = "extractAdaptiveColors"
    /\ sData # Null
    /\ sCall.maxColors >= 1
    /\ SeedsOfCall = << >>
    /\ \E i \in VisitedPixels(AdaptiveRate(sCall.qualityLevel)) :
           4 * i + 3 < Len(sData.pixels) /\ PixelAt(i).a >= 128
    /\ sResult = Returned(<< >>)

(***************************************************************************)
(* Claims about the colour conversions (SpecConvert)                       *)
(***************************************************************************)
\* C14: for integers r, g, b in 0..255, rgbToHex gives "#" and exactly six
\* hexadecimal digits, and hexToRgb gives (r, g, b) back from it.
C14_HexRoundTrip ==
    sCall.op = "rgbToHex" =>
        /\ Len(sResult.hex) = 7
        /\ sResult.hex[1] = "#"
        /\ \A i \in 2 .. 7 : DigitValue(sResult.hex[i]) >= 0
        /\ sResult.rgb = [r |-> sCall.r, g |-> sCall.g, b |-> sCall.b]

\* a round trip with a one-digit, a two-digit and a zero channel
C14_Witness ==
    /\ sCall.op = "rgbToHex"
    /\ sCall.r = 8
    /\ sCall.g = 255
    /\ sCall.b = 0
    /\ sResult.hex = <<"#", "0", "8", "f", "f", "0", "0">>
    /\ sResult.rgb = [r |-> 8, g |-> 255, b |-> 0]

\* C15: for integers r, g, b in 0..255, hslToRgb of the rounded rgbToHsl
\* differs from (r, g, b) by at most 1 in each channel.
C15_HslRoundTripWithinOne ==
    sCall.op = "rgbToHsl" =>
        /\ sResult.rgb.r - sCall.r \in -1 .. 1
        /\ sResult.rgb.g - sCall.g \in -1 .. 1
        /\ sResult.rgb.b - sCall.b \in -1 .. 1

\* the part of C16 that does not depend on when k is 1
CmykInRange ==
    /\ sResult.c \in 0 .. 100
    /\ sResult.m \in 0 .. 100
    /\ sResult.y \in 0 .. 100
    /\ sResult.k \in 0 .. 100
    /\ (sCall.r = 0 /\ sCall.g = 0 /\ sCall.b = 0) =>
           sResult = [c |-> 0, m |-> 0, y |-> 0, k |-> 100]
    /\ ~(sCall.r = 0 /\ sCall.g = 0 /\ sCall.b = 0) =>
           (sResult.c = 0 \/ sResult.m = 0 \/ sResult.y = 0)

\* C16 as stated: rgbToCmyk returns c, m, y, k in [0, 1] in hundredths;
\* k is 1 exactly when r = g = b = 0, and then the result is {0, 0, 0, 1};
\* for every other input one of c, m, y is 0.
C16_CmykKeyOneOnlyForBlack ==
    sCall.op = "rgbToCmyk" =>
        /\ CmykInRange
        /\ sResult.k = 100 <=> (sCall.r = 0 /\ sCall.g = 0 /\ sCall.b = 0)

\* C16 amended: as above, but k is 1 exactly when no channel exceeds 1
\* (k = 254 / 255 rounds to 1.00).
C16_CmykTotalInRange ==
    sCall.op = "rgbToCmyk" =>
        /\ CmykInRange
        /\ sResult.k = 100 <=> (sCall.r <= 1 /\ sCall.g <= 1 /\ sCall.b <= 1)

\* a colour that is not black and whose key rounds to 1
C16_Witness ==
    /\ sCall.op = "rgbToCmyk"
    /\ sCall.r = 1
    /\ sCall.g = 0
    /\ sCall.b = 0
    /\ sResult = [c |-> 0, m |-> 100, y |-> 100, k |-> 100]

\* C17: for every integer hue h, also negative or from 360 on, every
\* s <= 0 and every l in 0..100, hslToRgb(h, s, l) is a gray (v, v, v)
\* with v the integer nearest to l / 100 * 255.
C17_ZeroSaturationIsGray ==
    (sCall.op = "hslToRgb" /\ sCall.s <= 0) =>
        /\ sResult.r = sResult.g
        /\ sResult.g = sResult.b
        /\ 100 * sResult.r - 255 * sCall.l \in -50 .. 50

\* a gray from a negative hue and a negative saturation
C17_Witness ==
    /\ sCall.op = "hslToRgb"
    /\ sCall.h = 0 - 390
    /\ sCall.s = 0 - 2
    /\ sCall.l = 40
    /\ sResult = [r |-> 102, g |-> 102, b |-> 102]

C18_WitnessValue ==
    /\ sCall.op = "convertColor"
    /\ sCall.fromFormat = "hsl"
    /\ sCall.toFormat = "hex"
    /\ sCall.color = [h |-> 0, s |-> 100, l |-> 50]
    /\ sResult = Value(<<"#", "f", "f", "0", "0", "0", "0">>)

\* the colours of the table, read from their six digits
TableColours ==
    [i \in 1 .. Len(colorList) |->
        LET value(k) == 16 * DigitValue(colorList[i].hex[k])
                        + DigitValue(colorList[i].hex[k + 1])
        IN  [r |-> value(2), g |-> value(4), b |-> value(6)]]

\* the square of the Euclidean distance of two colours
SquaredEuclid(p, q) ==
    (p.r - q.r) * (p.r - q.r) + (p.g - q.g) * (p.g - q.g) + (p.b - q.b) * (p.b - q.b)

\* the places of the table at minimum distance from the colour rgb
NearestPlaces(rgb) ==
    LET d == [i \in 1 .. Len(colorList) |-> SquaredEuclid(rgb, TableColours[i])]
    IN  {i \in 1 .. Len(colorList) : \A j \in 1 .. Len(colorList) : d[i] <= d[j]}

\* the colour a string of six hexadecimal digits, after an optional "#",
\* stands for
ColourOfDigits(hex) ==
    LET bare == IF hex[1] = "#" THEN Tail(hex) ELSE hex
        value(i) == 16 * DigitValue(bare[i]) + DigitValue(bare[i + 1])
    IN  [r |-> value(1), g |-> value(3), b |-> value(5)]

\* C19: for a well-formed hex string, findNearestColorName returns the en
\* or vi name, as the language says, of the earliest table entry among
\* those at minimum Euclidean RGB distance from the colour.
C19_NearestEarliestName ==
    (sCall.op = "findNearestColorName" /\ sCall.hexColor \in WellFormedHex) =>
        LET places == NearestPlaces(ColourOfDigits(sCall.hexColor))
            first == CHOOSE i \in places : \A j \in places : i <= j
        IN  sResult = IF sCall.language = "vi" THEN colorList[first].vi
                      ELSE colorList[first].en

\* "#00FFFF" is the colour of Aqua and of Cyan, and the result is Aqua
C19_Witness ==
    /\ sCall.op = "findNearestColorName"
    /\ sCall.hexColor = <<"#", "0", "0", "F", "F", "F", "F">>
    /\ sCall.language = "en"
    /\ Cardinality(NearestPlaces([r |-> 0, g |-> 255, b |-> 255])) = 2
    /\ sResult = "Aqua"

\* "#010101" is no colour of the table, and the result is Black
C19_WitnessNear ==
    /\ sCall.op = "findNearestColorName"
    /\ sCall.hexColor = <<"#", "0", "1", "0", "1", "0", "1">>
    /\ sCall.language = "en"
    /\ sResult = "Black"

\* a string is well formed if it is six hexadecimal digits of either case
\* after an optional "#"
StrictPattern(str) ==
    LET digits == {"0", "1", "2", "3", "4", "5", "6", "7", "8", "9",
                   "a", "b", "c", "d", "e", "f", "A", "B", "C", "D", "E", "F"}
        sixDigits(s) == Len(s) = 6 /\ \A i \in 1 .. 6 : s[i] \in digits
    IN  \/ sixDigits(str)
        \/ Len(str) = 7 /\ str[1] = "#" /\ sixDigits(Tail(str))

\* C20: for a string that does not match the strict pattern, the empty
\* string and the 3-digit shorthand included, findNearestColorName returns
\* the name of Black in the language asked for.
C20_MalformedIsBlack ==
    (sCall.op = "findNearestColorName" /\ ~StrictPattern(sCall.hexColor)) =>
        sResult = IF sCall.language = "vi" THEN "\\u0110en" ELSE "Black"

\* the shorthand of red gives the vi name of Black
C20_Witness ==
    /\ sCall.op = "findNearestColorName"
    /\ sCall.hexColor = <<"#", "F", "0", "0">>
    /\ sCall.language = "vi"
    /\ sResult = "\\u0110en"

(***************************************************************************)
(* Claims about the converter's parser and the ranges of its results        *)
(* (SpecConvert)                                                           *)
(***************************************************************************)
\* three or six hexadecimal digits after an optional "#"
HexOrShorthand(str) ==
    LET bare == IF Len(str) > 0 /\ str[1] = "#" THEN Tail(str) ELSE str
    IN  /\ Len(bare) \in {3, 6}
        /\ \A i \in 1 .. Len(bare) : DigitValue(bare[i]) >= 0

\* C21: hexToRgb of the converter returns integer channels in 0..255 for
\* every string, and (0, 0, 0) for a string that is neither six hexadecimal
\* digits nor the shorthand, after an optional "#".
C21_ConverterHexLenient ==
    sCall.op = "hexToRgb" =>
        /\ \A ch \in {sResult.r, sResult.g, sResult.b} : ch \in 0 .. 255
        /\ ~HexOrShorthand(sCall.hex) => sResult = [r |-> 0, g |-> 0, b |-> 0]

\* C22: for integers r, g, b in 0..255, rgbToHsl and rgbToHsv return a hue
\* in 0..359 and s, l or v in 0..100, and h = 0, s = 0 when r = g = b.
C22_HueBelow360 ==
    /\ sCall.op = "rgbToHsl" =>
           /\ sResult.hsl.h \in 0 .. 359
           /\ sResult.hsl.s \in 0 .. 100
           /\ sResult.hsl.l \in 0 .. 100
           /\ (sCall.r = sCall.g /\ sCall.g = sCall.b) =>
                  (sResult.hsl.h = 0 /\ sResult.hsl.s = 0)
    /\ sCall.op = "rgbToHsv" =>
           /\ sResult.h \in 0 .. 359
           /\ sResult.s \in 0 .. 100
           /\ sResult.v \in 0 .. 100
           /\ (sCall.r = sCall.g /\ sCall.g = sCall.b) =>
                  (sResult.h = 0 /\ sResult.s = 0)

\* C23: for integers r, g, b in 0..255, rgbToYuv returns y in [0, 1] and
\* u and v in [-0.5, 0.5] (here in hundredths).
C23_YuvInRange ==
    sCall.op = "rgbToYuv" =>
        /\ sResult.y \in 0 .. 100
        /\ sResult.u \in (0 - 50) .. 50
        /\ sResult.v \in (0 - 50) .. 50

(***************************************************************************)
(* Claims about the fallback extractor (SpecFallback)                       *)
(***************************************************************************)
\* the indices of the triplets of bytes that pass the validity filter
AcceptedAt(bytes) ==
    {i \in 0 .. Len(bytes) - 3 : isValidRGBColor(bytes[i + 1], bytes[i + 2], bytes[i + 3])}

\* the first hundred of them
FirstHundred(bytes) ==
    {i \in AcceptedAt(bytes) : Cardinality({j \in AcceptedAt(bytes) : j < i}) < 100}

\* the sum of the bytes at the indices of S, each moved by offset
RECURSIVE ByteSum(_, _, _)
ByteSum(S, bytes, offset) ==
    IF S = {} THEN 0
    ELSE LET i == CHOOSE i \in S : \A j \in S : i <= j
         IN  bytes[i + 1 + offset] + ByteSum(S \ {i}, bytes, offset)

\* the integer nearest to total / n, a half rounded up
NearestMean(total, n) == CHOOSE m \in 0 .. 255 : 2 * n * m <= 2 * total + n /\ 2 * total + n < 2 * n * (m + 1)

C25_FailedLoadKeepsCache ==
    (/\ snap.on
     /\ Quiet
     /\ \A c \in snap.calls : c[2] \in {UnreadableUri, UndecodableUri}) =>
        /\ imageCache = snap.image
        /\ pixelCache = snap.pixel

\* the points extractMultipleColors samples: (i * stepX, j * stepY) for
\* i, j in 1..gridSize
SampledPoints(width, height, gridSize) ==
    {[x |-> i * (width \div (gridSize + 1)), y |-> j * (height \div (gridSize + 1))] :
        i \in 1 .. gridSize, j \in 1 .. gridSize}

\* C26: for gridSize >= 1 and a buffer of width, height >= 1,
\* extractMultipleColors samples gridSize * gridSize pairwise distinct
\* interior points (0 < x < width, 0 < y < height) and returns at most
\* gridSize * gridSize colours.
C26_GridPointsInterior ==
    (sCall.op = "extractMultipleColors" /\ sData # Null) =>
        LET points == SampledPoints(sData.width, sData.height, sCall.gridSize)
        IN  /\ \A pt \in points : 0 < pt.x /\ pt.x < sData.width
                                  /\ 0 < pt.y /\ pt.y < sData.height
            /\ Cardinality(points) = sCall.gridSize * sCall.gridSize
            /\ Len(sResult.items) <= sCall.gridSize * sCall.gridSize

\* C27: once clearCache has run at the teardown and no load is started
\* afterwards, both caches are empty and stay empty, whatever the loads that
\* were in flight do.
C27_EmptyAfterTeardown ==
    snap.on => (imageCache = << >> /\ pixelCache = {})

\* C28: in every reachable state, also with loads, evictions and clearCache
\* interleaved at the awaits, every key of the pixel cache is a key of the
\* image cache.
C28_PixelsHaveImage ==
    PixelKeys(pixelCache) \subseteq {imageCache[i].key : i \in 1 .. Len(imageCache)}

\* what getLibraryData returns for an item of the store
Library(item) == IF item = Null THEN defaultData ELSE Parse(item)

\* the package of the library a save without a packageId, or with one, goes to
SavedTo(data, c) ==
    LET index == PackageIndex(data, TargetPackageId(data, c.packageId))
    IN  data.packages[index]

\* C29: once no call of saveColor or savePalette is in flight, the colour or
\* palette of every call that returned without throwing is in its package in
\* the store, also when the calls overlapped.
C29_NoLostUpdate ==
    (\A p \in Procs : lib[p].pc \in {"idle", "done", "threw"}) =>
        \A p \in Procs :
            LET c == lib[p].call
                pkg == SavedTo(Library(storage), c)
            IN  /\ (lib[p].pc = "done" /\ c.op = "saveColor") =>
                       \E i \in 1 .. Len(pkg.colors) :
                           pkg.colors[i] = [id |-> c.id, color |-> c.color]
                /\ (lib[p].pc = "done" /\ c.op = "savePalette") =>
                       \E i \in 1 .. Len(pkg.palettes) : pkg.palettes[i].id = c.id

PackageIdsOf(data) == {data.packages[i].id : i \in 1 .. Len(data.packages)}

C30_WitnessThrown ==
    /\ lib[1].pc = "threw"
    /\ lib[1].call.op = "deletePackage"
    /\ lib[1].call.packageId = DefaultId

====
